---- MODULE Spec2Model ----
(***************************************************************************)
(* Box interpreter: the tree-walking evaluator (Evaluator.Eval and the     *)
(* functions it calls), the control-flow built-ins and the command-line    *)
(* driver, as a state machine over a bounded family of parsed Programs.    *)
(*                                                                         *)
(* Evaluator functions are operators that take the evaluator state `e`     *)
(* (scope chain, root function table, file system, standard output) and    *)
(* return [res |-> Result, e |-> evaluator state].  The field e.trace is   *)
(* an observation log (which verb was invoked, what each function          *)
(* returned); the evaluator never reads it.                                *)
(***************************************************************************)
EXTENDS Integers, Sequences, FiniteSets, TLC

\* program, ev, result, exitCode: the driver's Program, Evaluator, Result and
\* exit status; pc: the driver's position; source: the text handed to the
\* parser, as lines of tokens; lexer, tokens: a Lexer over a text and the
\* tokens its caller has drawn from it so far
VARIABLES program, pc, ev, result, exitCode, source, lexer, tokens

vars == <<program, pc, ev, result, exitCode, source, lexer, tokens>>

\* ---------------------------------------------------------------- bounds
\* nesting depth of control structures / function calls around the probe
MaxDepth == 2
\* number of while-loop iterations a run may start before it is cut off
MaxWhileIter == 3
\* number of stages of the pipelines of the family
MaxStages == 3

\* ------------------------------------------------------- program constants
FailFast == 0
IgnoreError == 1
FallbackOnError == 2
TryFallbackHalt == 3

MainBlock == 0
FuncBlock == 1
DataBlock == 2
CustomBlock == 3

NoHalt == 0
BreakHalt == 1
ContinueHalt == 2
ReturnHalt == 3
ExitHalt == 4

\* ------------------------------------------------------------- AST nodes
NoCmd == [kind |-> "None"]

LiteralExpr(s) == [type |-> "Literal", Value |-> s]

\* Index is <<>> for Go's nil pointer, <<s>> for a pointer to the string s
VariableExpr(n) == [type |-> "Variable", Name |-> n, Index |-> <<>>]

IndexedVariableExpr(n, index) == [type |-> "Variable", Name |-> n, Index |-> <<index>>]

\* the Command of a command substitution is kept as the lines of tokens its
\* text lexes to
CommandSubExpr(command) == [type |-> "CommandSub", Command |-> command]

Cmd(line, verb, args, policy, fallback) ==
  [kind |-> "Cmd", Verb |-> verb, Args |-> args, Redirects |-> <<>>,
   ErrorPolicy |-> policy, Fallback |-> fallback, Line |-> line, Column |-> 1]

Pipeline(line, cmds) ==
  [kind |-> "Pipeline", Commands |-> cmds, Line |-> line, Column |-> 1]

Block(line, type, label, args, body) ==
  [kind |-> "Block", Type |-> type, Label |-> label, Args |-> args,
   Modifiers |-> <<>>, Body |-> body, Line |-> line, Column |-> 1]

\* ======================================================================
\* The front end: the two parsers of the repository, over token streams.
\* ParticleParser (the parser the command-line driver uses) reads boxLexer
\* tokens; Parser reads the tokens of the hand-written Lexer.  A source is a
\* sequence of lines, a line a sequence of tokens [Kind, Value] separated by
\* single spaces.  Kinds carry the Lexer's names; boxLexer's Word,
\* IgnoreError, BlockStart, BlockEnd, SingleQuote, DoubleQuote, Variable,
\* CommandSubDollar are the kinds WORD, IGNORE_ERROR, HEADER_START, BLOCK_END,
\* SINGLE_QUOTE, DOUBLE_QUOTE, VARIABLE, COMMAND_SUB.  The Value of a
\* COMMAND_SUB token is the inner source, as lines of tokens.

Tok(kind, value) == [Kind |-> kind, Value |-> value]

\* the byte s[i] of a string, as a one-byte string
Char(s, i) == SubSeq(s, i, i)

\* strings.Index from byte i on, as a position counted from 1; 0 when sub does
\* not occur
RECURSIVE IndexFrom(_, _, _)
IndexFrom(s, sub, i) ==
  IF i + Len(sub) - 1 > Len(s) THEN 0
  ELSE IF SubSeq(s, i, i + Len(sub) - 1) = sub THEN i
  ELSE IndexFrom(s, sub, i + 1)

\* strings.Fields, for fields separated by spaces
Fields(s) ==
  LET RECURSIVE FieldsFrom(_, _, _)
      FieldsFrom(i, cur, acc) ==
        IF i > Len(s) THEN (IF cur = "" THEN acc ELSE Append(acc, cur))
        ELSE IF Char(s, i) = " "
             THEN FieldsFrom(i + 1, "", IF cur = "" THEN acc ELSE Append(acc, cur))
             ELSE FieldsFrom(i + 1, cur \o Char(s, i), acc)
  IN FieldsFrom(1, "", <<>>)

\* The Value of a source token is its text as written (boxLexer's Value).
\* The Value the hand-written Lexer gives the same token: readSingleQuote and
\* readDoubleQuote drop the quotes (no text of the family has a backslash),
\* readVariable drops `$` and the braces.
LexerValue(tok) ==
  CASE tok.Kind \in {"SINGLE_QUOTE", "DOUBLE_QUOTE"} ->
         SubSeq(tok.Value, 2, Len(tok.Value) - 1)
    [] tok.Kind = "VARIABLE" ->
         IF Char(tok.Value, 2) = "{" THEN SubSeq(tok.Value, 3, Len(tok.Value) - 1)
         ELSE SubSeq(tok.Value, 2, Len(tok.Value))
    [] OTHER -> tok.Value

\* the token stream the hand-written Lexer gives Parser: no token for a line
\* break, every token carries its Line
RECURSIVE LexerTokens(_, _)
LexerTokens(src, n) ==
  IF n > Len(src) THEN <<>>
  ELSE [i \in 1..Len(src[n]) |->
          [Kind |-> src[n][i].Kind, Value |-> LexerValue(src[n][i]), Line |-> n]]
       \o LexerTokens(src, n + 1)

\* the token stream parseTokens collects from boxLexer: Whitespace and
\* Comment tokens dropped, a Newline token at the end of every line
RECURSIVE ParticleTokens(_, _)
ParticleTokens(src, n) ==
  IF n > Len(src) THEN <<>>
  ELSE [i \in 1..Len(src[n]) |->
          [Kind |-> src[n][i].Kind, Value |-> src[n][i].Value, Line |-> n]]
       \o <<[Kind |-> "Newline", Value |-> "\n", Line |-> n]>>
       \o ParticleTokens(src, n + 1)

\* &Program{...}: no block yet
NewProgram == [Blocks |-> <<>>, Functions |-> <<>>, Data |-> <<>>, Main |-> NoCmd]

\* the header of a block, after the brackets are stripped: parseBlockHeader
\* and the header part of Parser.parseBlock (the headers of the family have no
\* modifier).  err is "" when the header is accepted.
parseBlockHeader(line, text) ==
  LET parts == Fields(SubSeq(text, 2, Len(text) - 1))
      blank == Block(line, CustomBlock, "", <<>>, <<>>)
  IN IF Len(parts) = 0 THEN [block |-> blank, err |-> "empty block header"]
     ELSE CASE parts[1] = "main" ->
                 IF Len(parts) > 1
                 THEN [block |-> blank, err |-> "[main] block cannot have arguments"]
                 ELSE [block |-> [blank EXCEPT !.Type = MainBlock], err |-> ""]
            [] parts[1] = "fn" ->
                 IF Len(parts) < 2
                 THEN [block |-> blank, err |-> "[fn] block missing function name"]
                 ELSE [block |-> [blank EXCEPT !.Type = FuncBlock, !.Label = parts[2],
                                               !.Args = SubSeq(parts, 3, Len(parts))],
                       err |-> ""]
            [] parts[1] = "data" ->
                 IF Len(parts) < 2
                 THEN [block |-> blank, err |-> "[data] block missing data name"]
                 ELSE [block |-> [blank EXCEPT !.Type = DataBlock, !.Label = parts[2]],
                       err |-> ""]
            [] OTHER ->
                 [block |-> [blank EXCEPT !.Label = parts[1],
                                          !.Args = SubSeq(parts, 2, Len(parts))],
                  err |-> ""]

\* the Program with one more parsed block: appended to Blocks and stored
\* under its label (Functions, Data) or as Main, in place of what was there
AddBlock(prog, block) ==
  LET p1 == [prog EXCEPT !.Blocks = Append(@, block)]
  IN CASE block.Type = FuncBlock ->
            [p1 EXCEPT !.Functions = (block.Label :> block) @@ @]
       [] block.Type = DataBlock ->
            [p1 EXCEPT !.Data = (block.Label :> block) @@ @]
       [] block.Type = MainBlock -> [p1 EXCEPT !.Main = block]
       [] OTHER -> p1

\* the end of both parsers: top-level commands make an implicit [main] when
\* the source has none
ImplicitMain(prog, top) ==
  IF Len(top) > 0 /\ prog.Main.kind = "None"
  THEN [prog EXCEPT !.Main = Block(0, MainBlock, "", <<>>, top),
                    !.Blocks = Append(@, Block(0, MainBlock, "", <<>>, top))]
  ELSE prog

\* ------------------------------------------------------- ParticleParser
\* the array access of parseVariable and of parseExpression's VARIABLE case:
\* `name[index]` is split when it has one `[` and ends with `]`
SplitIndex(name) ==
  LET open == IndexFrom(name, "[", 1)
  IN IF /\ open # 0
        /\ IndexFrom(name, "[", open + 1) = 0
        /\ Char(name, Len(name)) = "]"
     THEN IndexedVariableExpr(SubSeq(name, 1, open - 1),
                              SubSeq(name, open + 1, Len(name) - 1))
     ELSE VariableExpr(name)

\* ParticleParser.parseVariable: `$` and a `{}` wrapper are removed
parseVariable(value) ==
  LET n1 == IF Char(value, 1) = "$" THEN SubSeq(value, 2, Len(value)) ELSE value
      n2 == IF Char(n1, 1) = "{" /\ Char(n1, Len(n1)) = "}"
            THEN SubSeq(n1, 2, Len(n1) - 1) ELSE n1
  IN SplitIndex(n2)

\* ParticleParser.createExpr, for the token kinds of the family (no text of
\* the family has a backslash, so processEscapeSequences changes nothing)
createExpr(tok) ==
  CASE tok.Kind \in {"SINGLE_QUOTE", "DOUBLE_QUOTE"} ->
         LiteralExpr(IF Len(tok.Value) >= 2
                     THEN SubSeq(tok.Value, 2, Len(tok.Value) - 1) ELSE tok.Value)
    [] tok.Kind = "VARIABLE" -> parseVariable(tok.Value)
    [] tok.Kind = "COMMAND_SUB" -> CommandSubExpr(tok.Value)
    [] OTHER -> LiteralExpr(tok.Value)

\* ParticleParser.createCmd: the first token is the verb, every other token
\* of the line an argument (no two tokens of the family are adjacent, so every
\* argument group is a single token); ErrorPolicy is FailFast
createCmd(toks) ==
  Cmd(toks[1].Line, toks[1].Value,
      [i \in 1..(Len(toks) - 1) |-> createExpr(toks[i + 1])], FailFast, NoCmd)

\* ParticleParser.parseCommand and parseCommandFromTokens: the tokens up to
\* the next Newline make one command (the family has no `|`)
ParticleCommand(toks, i) ==
  LET RECURSIVE LineEnd(_)
      LineEnd(k) == IF k > Len(toks) \/ toks[k].Kind = "Newline" THEN k
                    ELSE LineEnd(k + 1)
      end == LineEnd(i)
  IN [cmd |-> createCmd(SubSeq(toks, i, end - 1)),
      pos |-> IF end <= Len(toks) THEN end + 1 ELSE end]

\* ParticleParser.parseBodyTokens, for bodies of plain commands
RECURSIVE parseBodyTokens(_, _)
parseBodyTokens(toks, i) ==
  IF i > Len(toks) THEN <<>>
  ELSE IF toks[i].Kind = "Newline" THEN parseBodyTokens(toks, i + 1)
  ELSE LET Then(c) == <<c.cmd>> \o parseBodyTokens(toks, c.pos)
       IN Then(ParticleCommand(toks, i))

\* ParticleParser.parseBlock: header, search for the BLOCK_END that closes
\* the block (the bodies of the family have no control structure), body
ParticleBlock(toks, i) ==
  LET RECURSIVE MatchingEnd(_, _)
      MatchingEnd(k, blockDepth) ==
        IF k > Len(toks) THEN k
        ELSE IF toks[k].Kind = "HEADER_START" THEN MatchingEnd(k + 1, blockDepth + 1)
        ELSE IF toks[k].Kind = "BLOCK_END"
             THEN (IF blockDepth = 1 THEN k ELSE MatchingEnd(k + 1, blockDepth - 1))
        ELSE MatchingEnd(k + 1, blockDepth)
      h == parseBlockHeader(toks[i].Line, toks[i].Value)
      close == MatchingEnd(i + 1, 1)
  IN IF h.err # "" THEN [block |-> h.block, pos |-> i, err |-> h.err]
     ELSE IF close > Len(toks) THEN [block |-> h.block, pos |-> i, err |-> "unclosed block"]
     ELSE [block |-> [h.block EXCEPT
                        !.Body = parseBodyTokens(SubSeq(toks, i + 1, close - 1), 1)],
           pos |-> close + 1, err |-> ""]

\* ParticleParser.parseTokens, the loop over the token stream
RECURSIVE parseTokens(_, _, _, _)
parseTokens(toks, i, prog, top) ==
  IF i > Len(toks) THEN [program |-> ImplicitMain(prog, top), err |-> ""]
  ELSE IF toks[i].Kind = "Newline" THEN parseTokens(toks, i + 1, prog, top)
  ELSE IF toks[i].Kind = "HEADER_START"
       THEN LET b == ParticleBlock(toks, i)
            IN IF b.err # "" THEN [program |-> prog, err |-> b.err]
               ELSE parseTokens(toks, b.pos, AddBlock(prog, b.block), top)
       ELSE parseTokens(toks, ParticleCommand(toks, i).pos, prog,
                        Append(top, ParticleCommand(toks, i).cmd))

\* ParticleParser.ParseString
ParseString(src) == parseTokens(ParticleTokens(src, 1), 1, NewProgram, <<>>)

\* --------------------------------------------------------------- Parser
\* Parser.current when the lexer has produced i - 1 tokens
Current(toks, i) ==
  IF i <= Len(toks) THEN toks[i] ELSE [Kind |-> "EOF", Value |-> "", Line |-> 0]

\* Parser.isLikelyCommand: its last statement is `return true`
isLikelyCommand(word) == TRUE

\* Parser.parseExpression, for the token kinds of the family
parseExpression(tok) ==
  CASE tok.Kind \in {"WORD", "SINGLE_QUOTE", "DOUBLE_QUOTE"} ->
         [expr |-> LiteralExpr(tok.Value), err |-> ""]
    [] tok.Kind = "VARIABLE" -> [expr |-> SplitIndex(tok.Value), err |-> ""]
    [] tok.Kind = "COMMAND_SUB" -> [expr |-> CommandSubExpr(tok.Value), err |-> ""]
    [] OTHER -> [expr |-> LiteralExpr(""), err |-> "unexpected token in expression"]

\* Parser.parseCommand, the argument loop
RECURSIVE parseArguments(_, _, _)
parseArguments(toks, i, startLine) ==
  LET OfExpr(x) ==
        IF x.err # "" THEN [args |-> <<>>, pos |-> i, err |-> x.err]
        ELSE [parseArguments(toks, i + 1, startLine) EXCEPT !.args = <<x.expr>> \o @]
      At(cur) ==
        IF \/ cur.Kind \in {"EOF", "PIPELINE", "REDIRECT", "IGNORE_ERROR",
                            "HEADER_START", "BLOCK_END", "COMMENT"}
           \/ (cur.Kind = "WORD" /\ cur.Value = "!")
           \/ (cur.Line > startLine /\ cur.Kind = "WORD" /\ isLikelyCommand(cur.Value))
        THEN [args |-> <<>>, pos |-> i, err |-> ""]
        ELSE OfExpr(parseExpression(cur))
  IN At(Current(toks, i))

\* Parser.parseCommand (the family has no redirection)
RECURSIVE parseCommand(_, _)
parseCommand(toks, i) ==
  LET WithFallback(cmd, policy, fallback) ==
        IF fallback.err # "" THEN fallback
        ELSE [cmd |-> [cmd EXCEPT !.Fallback = fallback.cmd, !.ErrorPolicy = policy],
              pos |-> fallback.pos, err |-> ""]
      Suffix(cmd, pos) ==
        IF Current(toks, pos).Kind = "IGNORE_ERROR"
        THEN IF Current(toks, pos + 1).Kind = "WORD"
             THEN WithFallback(cmd, FallbackOnError, parseCommand(toks, pos + 1))
             ELSE [cmd |-> [cmd EXCEPT !.ErrorPolicy = IgnoreError],
                   pos |-> pos + 1, err |-> ""]
        ELSE IF Current(toks, pos).Kind = "WORD" /\ Current(toks, pos).Value = "!"
             THEN IF Current(toks, pos + 1).Kind = "WORD"
                  THEN WithFallback(cmd, TryFallbackHalt, parseCommand(toks, pos + 1))
                  ELSE [cmd |-> NoCmd, pos |-> pos + 1,
                        err |-> "! requires fallback command"]
        ELSE [cmd |-> cmd, pos |-> pos, err |-> ""]
      OfArgs(verb, a) ==
        IF a.err # "" THEN [cmd |-> NoCmd, pos |-> a.pos, err |-> a.err]
        ELSE Suffix(Cmd(verb.Line, verb.Value, a.args, FailFast, NoCmd), a.pos)
      OfVerb(verb) ==
        IF verb.Kind # "WORD"
        THEN [cmd |-> NoCmd, pos |-> i, err |-> "expected command verb"]
        ELSE OfArgs(verb, parseArguments(toks, i + 1, verb.Line))
  IN OfVerb(Current(toks, i))

\* Parser.parseBlock, for bodies of plain commands: header, then commands up
\* to BLOCK_END or EOF
parseBlock(toks, i) ==
  LET RECURSIVE Body(_, _)
      Body(k, body) ==
        IF Current(toks, k).Kind \in {"BLOCK_END", "EOF"}
        THEN [body |-> body, pos |-> k, err |-> ""]
        ELSE LET OfItem(c) ==
                   IF c.err # "" THEN [body |-> body, pos |-> k, err |-> c.err]
                   ELSE Body(c.pos, Append(body, c.cmd))
             IN OfItem(parseCommand(toks, k))
      WithBody(h, b) ==
        IF b.err # "" THEN [block |-> h.block, pos |-> b.pos, err |-> b.err]
        ELSE [block |-> [h.block EXCEPT !.Body = b.body],
              pos |-> IF Current(toks, b.pos).Kind = "BLOCK_END" THEN b.pos + 1
                      ELSE b.pos,
              err |-> ""]
      OfHeader(h) ==
        IF h.err # "" THEN [block |-> h.block, pos |-> i, err |-> h.err]
        ELSE WithBody(h, Body(i + 1, <<>>))
  IN OfHeader(parseBlockHeader(toks[i].Line, toks[i].Value))

\* Parser.Parse on a parsed block: a second function or data block of the
\* same name, or a second [main], is an error ("" when the block is accepted)
DuplicateBlock(prog, block) ==
  CASE block.Type = FuncBlock /\ block.Label \in DOMAIN prog.Functions ->
         "function already defined"
    [] block.Type = DataBlock /\ block.Label \in DOMAIN prog.Data ->
         "data block already defined"
    [] block.Type = MainBlock /\ prog.Main.kind # "None" ->
         "multiple [main] blocks not allowed"
    [] OTHER -> ""

\* Parser.Parse, the loop over the token stream
RECURSIVE ParseFrom(_, _, _, _)
ParseFrom(toks, i, prog, top) ==
  LET Checked(b, duplicate) ==
        IF duplicate # "" THEN [program |-> prog, err |-> duplicate]
        ELSE ParseFrom(toks, b.pos, AddBlock(prog, b.block), top)
      OfBlock(b) ==
        IF b.err # "" THEN [program |-> prog, err |-> b.err]
        ELSE Checked(b, DuplicateBlock(prog, b.block))
      OfCommand(c) ==
        IF c.err # "" THEN [program |-> prog, err |-> c.err]
        ELSE ParseFrom(toks, c.pos, prog, Append(top, c.cmd))
  IN IF Current(toks, i).Kind = "EOF"
     THEN [program |-> ImplicitMain(prog, top), err |-> ""]
     ELSE IF Current(toks, i).Kind = "HEADER_START" THEN OfBlock(parseBlock(toks, i))
     ELSE OfCommand(parseCommand(toks, i))

\* NewLexer, NewParser and Parser.Parse
Parse(src) == ParseFrom(LexerTokens(src, 1), 1, NewProgram, <<>>)

\* ======================================================================
\* The hand-written Lexer. The Lexer struct is the record
\* [input, pos, line, column, current]; pos counts bytes from 0 as in the
\* code, current is the byte at pos as a one-byte string, "" for the rune 0.

\* the bytes that continue a `$name`: a-z, A-Z, 0-9 and _
NameBytes ==
  {"a", "b", "c", "d", "e", "f", "g", "h", "i", "j", "k", "l", "m",
   "n", "o", "p", "q", "r", "s", "t", "u", "v", "w", "x", "y", "z",
   "A", "B", "C", "D", "E", "F", "G", "H", "I", "J", "K", "L", "M",
   "N", "O", "P", "Q", "R", "S", "T", "U", "V", "W", "X", "Y", "Z",
   "0", "1", "2", "3", "4", "5", "6", "7", "8", "9", "_"}

\* the bytes unicode.IsSpace accepts, among those the family writes
SpaceBytes == {" ", "\t", "\n", "\r"}

\* the bytes readWord stops at, besides white space. The backquote, the tenth
\* of them and the other opener of a command substitution, is left out: it
\* cannot be written in a string here, and no input below has one.
Specials == {"|", ">", "?", "[", "]", "#", "'", "\"", "$"}

NewLexer(input) ==
  [input |-> input, pos |-> 0, line |-> 1, column |-> 1,
   current |-> IF Len(input) > 0 THEN Char(input, 1) ELSE ""]

advance(l) ==
  LET moved == IF l.current = "\n" THEN [l EXCEPT !.line = @ + 1, !.column = 1]
               ELSE [l EXCEPT !.column = @ + 1]
      pos == l.pos + 1
  IN [moved EXCEPT !.pos = pos,
                   !.current = IF pos >= Len(l.input) THEN ""
                               ELSE Char(l.input, pos + 1)]

peek(l) == IF l.pos + 1 >= Len(l.input) THEN "" ELSE Char(l.input, l.pos + 2)

\* the loops `for current != 0 && <current in set> { advance() }` (inside) and
\* `for current != 0 && <current not in set> { advance() }`
RECURSIVE Scan(_, _, _)
Scan(l, set, inside) ==
  IF l.current # "" /\ ((l.current \in set) = inside)
  THEN Scan(advance(l), set, inside) ELSE l

\* l.input[start:l.pos], with the Lexer it was read up to
Read(start, l) == [val |-> SubSeq(l.input, start + 1, l.pos), l |-> l]

\* read up to a closing byte and skip it when it is there
ReadTo(l, close) ==
  LET m == Scan(l, {close}, FALSE)
  IN [val |-> Read(l.pos, m).val, l |-> IF m.current = close THEN advance(m) ELSE m]

readWord(l) == Read(l.pos, Scan(l, SpaceBytes \cup Specials, FALSE))

readSingleQuote(l) == ReadTo(advance(l), "'")

readDoubleQuote(l) ==
  LET RECURSIVE Body(_, _)
      Body(m, acc) ==
        IF m.current = "\"" \/ m.current = "" THEN [val |-> acc, l |-> m]
        ELSE IF m.current = "\\"
        THEN LET n == advance(m)
                 c == CASE n.current = "n" -> "\n"
                        [] n.current = "t" -> "\t"
                        [] n.current = "r" -> "\r"
                        [] OTHER -> n.current
             IN Body(advance(n), acc \o c)
        ELSE Body(advance(m), acc \o m.current)
      r == Body(advance(l), "")
  IN [val |-> r.val, l |-> IF r.l.current = "\"" THEN advance(r.l) ELSE r.l]

readCommandSub(l) ==
  IF l.current = "$" /\ peek(l) = "("
  THEN LET RECURSIVE Nested(_, _)
           Nested(m, depth) ==
             IF depth > 0 /\ m.current # ""
             THEN LET d == IF m.current = "(" THEN depth + 1
                           ELSE IF m.current = ")" THEN depth - 1 ELSE depth
                  IN Nested(IF d > 0 THEN advance(m) ELSE m, d)
             ELSE m
           open == advance(advance(l))
           m == Nested(open, 1)
       IN [val |-> Read(open.pos, m).val,
           l |-> IF m.current = ")" THEN advance(m) ELSE m]
  ELSE [val |-> "", l |-> l]

readVariable(l) ==
  LET skipped == advance(l)
  IN IF skipped.current = "{" THEN ReadTo(advance(skipped), "}")
     ELSE LET m == Scan(skipped, NameBytes, TRUE)
          IN IF m.current = "["
             THEN LET n == Scan(m, {"]"}, FALSE)
                  IN Read(skipped.pos, IF n.current = "]" THEN advance(n) ELSE n)
             ELSE Read(skipped.pos, m)

readComment(l) == LET skipped == advance(l)
                  IN Read(skipped.pos, Scan(skipped, {"\n"}, FALSE))

\* Lexer.NextToken: [tok, l], the token and the Lexer after the call
NextToken(lex) ==
  LET l == Scan(lex, SpaceBytes, TRUE)
      Token(kind, r) ==
        [tok |-> [Kind |-> kind, Value |-> r.val, Line |-> l.line, Column |-> l.column],
         l |-> r.l]
      Fixed(kind, value, m) == Token(kind, [val |-> value, l |-> m])
  IN CASE l.current = "" -> Fixed("EOF", "", l)
       [] l.current = "#" -> Token("COMMENT", readComment(l))
       [] l.current = "'" -> Token("SINGLE_QUOTE", readSingleQuote(l))
       [] l.current = "\"" -> Token("DOUBLE_QUOTE", readDoubleQuote(l))
       [] l.current = "$" ->
            IF peek(l) = "(" THEN Token("COMMAND_SUB", readCommandSub(l))
            ELSE LET r == readVariable(l)
                 IN Token(IF IndexFrom(r.val, ".", 1) > 0 THEN "HEADER_LOOKUP"
                          ELSE "VARIABLE", r)
       [] l.current = "|" -> Fixed("PIPELINE", "|", advance(l))
       [] l.current = ">" ->
            LET m == advance(l)
            IN IF m.current = ">" THEN Fixed("REDIRECT", ">>", advance(m))
               ELSE Fixed("REDIRECT", ">", m)
       [] l.current = "2" ->
            IF peek(l) = ">" THEN Fixed("REDIRECT", "2>", advance(advance(l)))
            ELSE Token("WORD", readWord(l))
       [] l.current = "?" -> Fixed("IGNORE_ERROR", "?", advance(l))
       [] l.current = "[" ->
            LET m == Scan(l, {"]"}, FALSE)
            IN Token("HEADER_START", Read(l.pos, IF m.current = "]" THEN advance(m) ELSE m))
       [] OTHER ->
            LET r == readWord(l)
            IN Token(IF r.val = "end" THEN "BLOCK_END" ELSE "WORD", r)


\* ------------------------------------------------------------ Value, Result
\* Value.String(): the first element, "" for the empty list
ValueString(v) == IF Len(v) = 0 THEN "" ELSE v[1]

\* Result{Status: s}: the other fields take Go's zero values
Result(s) == [Status |-> s, Halt |-> FALSE, HaltType |-> NoHalt, Error |-> ""]

\* Result{Status: s, Halt: true}
HaltResult(s) == [Status |-> s, Halt |-> TRUE, HaltType |-> NoHalt, Error |-> ""]

\* Result{Error: err}
ErrorResult(err) == [Status |-> 0, Halt |-> FALSE, HaltType |-> NoHalt, Error |-> err]

\* strconv.Itoa / strconv.Atoi on the statuses of the family (one digit)
Digits == <<"0", "1", "2", "3", "4", "5", "6", "7", "8", "9">>

Itoa(n) == IF n \in 0..9 THEN Digits[n + 1] ELSE "overflow"

Atoi(s) ==
  IF \E n \in 0..9 : Digits[n + 1] = s
  THEN [ok |-> TRUE, val |-> CHOOSE n \in 0..9 : Digits[n + 1] = s]
  ELSE [ok |-> FALSE, val |-> 0]

\* ------------------------------------------------------------------ Scope
\* The scope chain e.scope -> Parent -> ... -> root is the sequence e.scopes,
\* root first; e.scopes[Len] is e.scope.
SetIn(m, name, value) ==
  [n \in (DOMAIN m) \cup {name} |-> IF n = name THEN value ELSE m[n]]

\* Scope.Set on e.scope: writes the innermost scope
ScopeSet(e, name, value) ==
  [e EXCEPT !.scopes[Len(e.scopes)].Variables = SetIn(@, name, value)]

\* Scope.Get: walks the parent chain
RECURSIVE GetFrom(_, _, _)
GetFrom(scopes, i, name) ==
  IF i = 0 THEN [ok |-> FALSE, val |-> <<>>]
  ELSE IF name \in DOMAIN scopes[i].Variables
       THEN [ok |-> TRUE, val |-> scopes[i].Variables[name]]
  ELSE GetFrom(scopes, i - 1, name)

ScopeGet(e, name) == GetFrom(e.scopes, Len(e.scopes), name)

\* the observation log; nothing is observed of a run after it was cut off
Log(e, event) == IF e.diverged THEN e ELSE [e EXCEPT !.trace = Append(@, event)]

\* a run that starts more than MaxWhileIter while iterations, or whose
\* expansion of a literal keeps replacing, is cut off there: it is marked
\* diverged and unwound
CutOff(e) == [res |-> ErrorResult("cut off"), e |-> [e EXCEPT !.diverged = TRUE]]

\* updateStatus recording success or failure instead of the status
updateStatus_Mut(e, res) ==
  ScopeSet(e, "status", <<IF res.Status = 0 THEN "0" ELSE "1">>)

\* Evaluator.updateStatus
updateStatus(e, res) == ScopeSet(e, "status", <<Itoa(res.Status)>>)

\* --------------------------------------------------------- built-in verbs
\* the verbs of the dispatch table that the programs of the family use
builtins == {"echo", "set", "exit", "return", "delete", "exists", "test",
             "break", "continue"}

builtinEcho(args, e) ==
  [res |-> Result(0),
   e |-> [e EXCEPT !.stdout = Append(@, [i \in 1..Len(args) |-> ValueString(args[i])])]]

RECURSIVE Flatten(_)
Flatten(vals) == IF Len(vals) = 0 THEN <<>> ELSE Head(vals) \o Flatten(Tail(vals))

builtinSet(args, e) ==
  IF Len(args) < 1 THEN [res |-> ErrorResult("set: missing variable name"), e |-> e]
  ELSE [res |-> Result(0),
        e |-> ScopeSet(e, ValueString(args[1]), Flatten(Tail(args)))]

ExitStatusArg(args) ==
  IF Len(args) > 0 /\ Atoi(ValueString(args[1])).ok
  THEN Atoi(ValueString(args[1])).val ELSE 0

builtinExit(args, e) == [res |-> HaltResult(ExitStatusArg(args)), e |-> e]

builtinReturn(args, e) ==
  [res |-> HaltResult(ExitStatusArg(args)),
   e |-> ScopeSet(e, "status", <<Itoa(ExitStatusArg(args))>>)]

builtinBreak(args, e) == [res |-> HaltResult(0), e |-> e]

builtinContinue(args, e) == [res |-> HaltResult(0), e |-> e]

builtinExists(args, e) ==
  IF Len(args) # 1
  THEN [res |-> ErrorResult("exists: requires exactly one argument"), e |-> e]
  ELSE [res |-> Result(IF ValueString(args[1]) \in e.fs THEN 0 ELSE 1), e |-> e]

builtinDelete(args, e) ==
  IF Len(args) # 1
  THEN [res |-> ErrorResult("delete: requires exactly one argument"), e |-> e]
  ELSE [res |-> Result(0), e |-> [e EXCEPT !.fs = @ \ {ValueString(args[1])}]]

builtinTest(args, e) ==
  IF Len(args) = 0 THEN [res |-> Result(1), e |-> e]
  ELSE [res |-> Result(IF ValueString(args[1]) # "" THEN 0 ELSE 1), e |-> e]

builtin(verb, args, e) ==
  CASE verb = "echo" -> builtinEcho(args, e)
    [] verb = "set" -> builtinSet(args, e)
    [] verb = "exit" -> builtinExit(args, e)
    [] verb = "return" -> builtinReturn(args, e)
    [] verb = "break" -> builtinBreak(args, e)
    [] verb = "continue" -> builtinContinue(args, e)
    [] verb = "exists" -> builtinExists(args, e)
    [] verb = "delete" -> builtinDelete(args, e)
    [] verb = "test" -> builtinTest(args, e)

\* ------------------------------------------------------------- evaluator
\* The methods of Evaluator call one another recursively.  Call(method, x, e)
\* is the call e.method(x); it is defined after the methods.
RECURSIVE Call(_, _, _)

\* ------------------------------------------------------- expandVariables
\* replacements one pass of expandVariables makes before the run counts as
\* not terminating
MaxExpand == 8

\* strings.Join(list, " ")
RECURSIVE JoinSpace(_)
JoinSpace(list) ==
  IF Len(list) = 0 THEN ""
  ELSE IF Len(list) = 1 THEN list[1]
  ELSE list[1] \o " " \o JoinSpace(Tail(list))

\* the replacement of `${varPath}`: `name[*]`, `name[index]` or `name`; a
\* path with a `.` is a data-block lookup, and no scope of the model holds a
\* data block.
BraceReplacement(varPath, e) ==
  LET bracketStart == IndexFrom(varPath, "[", 1)
      bracketEnd == IndexFrom(varPath, "]", 1)
      varName == SubSeq(varPath, 1, bracketStart - 1)
      indexStr == SubSeq(varPath, bracketStart + 1, bracketEnd - 1)
      val == ScopeGet(e, varName).val
  IN IF IndexFrom(varPath, ".", 1) # 0 THEN ""
     ELSE IF bracketStart # 0 /\ bracketEnd # 0
          THEN IF bracketStart < bracketEnd /\ ScopeGet(e, varName).ok
               THEN IF indexStr = "*" THEN JoinSpace(val)
                    ELSE IF Atoi(indexStr).ok /\ Atoi(indexStr).val < Len(val)
                         THEN val[Atoi(indexStr).val + 1]
                         ELSE ""
               ELSE ""
          ELSE IF ScopeGet(e, varPath).ok THEN ValueString(ScopeGet(e, varPath).val)
               ELSE ""

\* expandVariables, the `${...}` loop: the first `${` and the first `}` after
\* it are replaced and the search starts again at the beginning of the result
RECURSIVE ExpandBraces(_, _, _)
ExpandBraces(text, e, n) ==
  LET start == IndexFrom(text, "${", 1)
      end == IndexFrom(text, "}", start)
  IN IF start = 0 \/ end = 0 THEN [text |-> text, hung |-> FALSE]
     ELSE IF n = 0 THEN [text |-> text, hung |-> TRUE]
     ELSE ExpandBraces(SubSeq(text, 1, start - 1)
                         \o BraceReplacement(SubSeq(text, start + 2, end - 1), e)
                         \o SubSeq(text, end + 1, Len(text)),
                       e, n - 1)

\* expandVariables, the `$name` loop: the first `$` is replaced with the
\* name after it and the search starts again; the loop ends at the first `$`
\* that no name byte follows
RECURSIVE ExpandNames(_, _, _)
ExpandNames(text, e, n) ==
  LET start == IndexFrom(text, "$", 1)
      RECURSIVE NameEnd(_)
      NameEnd(k) == IF k <= Len(text) /\ Char(text, k) \in NameBytes
                    THEN NameEnd(k + 1) ELSE k
      end == NameEnd(start + 1)
      varName == SubSeq(text, start + 1, end - 1)
  IN IF start = 0 \/ end = start + 1 THEN [text |-> text, hung |-> FALSE]
     ELSE IF n = 0 THEN [text |-> text, hung |-> TRUE]
     ELSE ExpandNames(SubSeq(text, 1, start - 1)
                        \o (IF ScopeGet(e, varName).ok
                            THEN ValueString(ScopeGet(e, varName).val) ELSE "")
                        \o SubSeq(text, end, Len(text)),
                      e, n - 1)

\* Evaluator.expandVariables: the `${...}` pass, then the `$name` pass (no
\* literal of the family has a `$(`, so the first pass finds nothing)
expandVariables(text, e) ==
  LET Names(braces) ==
        IF braces.hung THEN braces ELSE ExpandNames(braces.text, e, MaxExpand)
  IN Names(ExpandBraces(text, e, MaxExpand))

\* ---------------------------------------------- executeCommandSubstitution
\* what fmt.Println wrote for the echo lines of stdout, as one byte string
RECURSIVE OutputBytes(_)
OutputBytes(lines) ==
  IF Len(lines) = 0 THEN ""
  ELSE JoinSpace(lines[1]) \o "\n" \o OutputBytes(Tail(lines))

\* the trimming of the captured output: strings.TrimSpace
RECURSIVE TrimSpace(_)
TrimSpace(s) ==
  IF Len(s) = 0 THEN s
  ELSE IF Char(s, 1) \in SpaceBytes THEN TrimSpace(SubSeq(s, 2, Len(s)))
  ELSE IF Char(s, Len(s)) \in SpaceBytes THEN TrimSpace(SubSeq(s, 1, Len(s) - 1))
  ELSE s

\* strings.Split(s, "\n")
RECURSIVE SplitLines(_)
SplitLines(s) ==
  IF IndexFrom(s, "\n", 1) = 0 THEN <<s>>
  ELSE <<SubSeq(s, 1, IndexFrom(s, "\n", 1) - 1)>>
       \o SplitLines(SubSeq(s, IndexFrom(s, "\n", 1) + 1, Len(s)))

\* Evaluator.executeCommandSubstitution: the inner source is parsed by
\* ParticleParser and its [main] evaluated by a child evaluator, in a child
\* scope holding a copy of the current scope's variables, with standard
\* output captured.  The inner programs of the family only write, so the
\* caller's evaluator is left as it was.
executeCommandSubstitution(command, e) ==
  LET childScope == [Variables |-> e.scopes[Len(e.scopes)].Variables,
                     CurrentNamespace |-> e.scopes[Len(e.scopes)].CurrentNamespace]
      child == [e EXCEPT !.scopes = Append(@, childScope), !.stdout = <<>>,
                         !.trace = <<>>]
      OfOutput(outputStr) ==
        IF outputStr = "" THEN [val |-> <<"">>, err |-> "", hung |-> FALSE]
        ELSE [val |-> SplitLines(outputStr), err |-> "", hung |-> FALSE]
      OfResult(r) ==
        IF r.e.diverged THEN [val |-> <<>>, err |-> "", hung |-> TRUE]
        ELSE IF r.res.Error # ""
             THEN [val |-> <<>>, err |-> "command substitution execution error",
                   hung |-> FALSE]
        ELSE OfOutput(TrimSpace(OutputBytes(r.e.stdout)))
      OfProgram(p) ==
        IF p.err # ""
        THEN [val |-> <<>>, err |-> "command substitution parse error", hung |-> FALSE]
        ELSE IF p.program.Main.kind = "None" \/ Len(p.program.Main.Body) = 0
             THEN [val |-> <<"">>, err |-> "", hung |-> FALSE]
        ELSE OfResult(Call("evalBlock", p.program.Main, child))
  IN OfProgram(ParseString(command))

\* Evaluator.evalExpression: [val, err, hung], hung when the expansion of a
\* literal does not come to an end
evalExpression(expr, e) ==
  CASE expr.type = "Literal" ->
         LET OfText(x) == [val |-> <<x.text>>, err |-> "", hung |-> x.hung]
         IN OfText(expandVariables(expr.Value, e))
    [] expr.type = "Variable" ->
         LET val == ScopeGet(e, expr.Name).val
         IN IF ~ScopeGet(e, expr.Name).ok
            THEN [val |-> <<>>, err |-> "undefined variable", hung |-> FALSE]
            ELSE IF expr.Index # <<>>
                 THEN IF expr.Index[1] = "*" THEN [val |-> val, err |-> "", hung |-> FALSE]
                      ELSE IF ~Atoi(expr.Index[1]).ok
                           THEN [val |-> <<>>, err |-> "invalid array index",
                                 hung |-> FALSE]
                      ELSE IF Atoi(expr.Index[1]).val >= Len(val)
                           THEN [val |-> <<>>, err |-> "", hung |-> FALSE]
                      ELSE [val |-> <<val[Atoi(expr.Index[1]).val + 1]>>, err |-> "",
                            hung |-> FALSE]
            ELSE IF Len(val) > 0 THEN [val |-> <<val[1]>>, err |-> "", hung |-> FALSE]
            ELSE [val |-> <<>>, err |-> "", hung |-> FALSE]
    [] expr.type = "CommandSub" -> executeCommandSubstitution(expr.Command, e)

\* evalCommand's argument loop: the Values of cmd.Args, or the first error
RECURSIVE evalArgs(_, _, _, _)
evalArgs(exprs, i, e, acc) ==
  IF i > Len(exprs) THEN [vals |-> acc, err |-> "", hung |-> FALSE]
  ELSE LET Then(x) ==
             IF x.hung THEN [vals |-> acc, err |-> "", hung |-> TRUE]
             ELSE IF x.err # "" THEN [vals |-> acc, err |-> x.err, hung |-> FALSE]
             ELSE evalArgs(exprs, i + 1, e, Append(acc, x.val))
       IN Then(evalExpression(exprs[i], e))

\* strArgs of a function call: the string coercion of every argument
StrArgs(args) == [i \in 1..Len(args) |-> ValueString(args[i])]

\* Evaluator.getRootScope().Functions
RootFunctions(e) == e.Functions

\* Evaluator.callFunction
callFunction(fn, args, e) ==
  Call("callFunctionWithNamespace", [fn |-> fn, args |-> args, namespace |-> ""], e)

\* Result{Error: &BoxError{Message: "unknown command: ...", Location, Help}}
UnknownCommand(cmd) ==
  [Status |-> 0, Halt |-> FALSE, HaltType |-> NoHalt, Error |-> "unknown command",
   Location |-> [Line |-> cmd.Line, Column |-> cmd.Column],
   Help |-> "'" \o cmd.Verb \o "' is not a built-in verb. Box only supports internal commands."]

\* Evaluator.handleNonLocalFunction: a verb with a `.` is a function of a
\* namespace of the root scope or an error, any other verb a built-in or the
\* unknown command
handleNonLocalFunction(cmd, args, e) ==
  LET dot == IndexFrom(cmd.Verb, ".", 1)
      namespace == SubSeq(cmd.Verb, 1, dot - 1)
      functionName == SubSeq(cmd.Verb, dot + 1, Len(cmd.Verb))
  IN IF dot # 0
     THEN IF IndexFrom(cmd.Verb, ".", dot + 1) # 0
          THEN [res |-> ErrorResult("invalid namespaced function call"), e |-> e]
          ELSE IF namespace \notin DOMAIN e.Namespaces
          THEN [res |-> ErrorResult("namespace not found"), e |-> e]
          ELSE IF functionName \notin DOMAIN e.Namespaces[namespace]
          THEN [res |-> ErrorResult("function not found in namespace"), e |-> e]
          ELSE Call("callFunctionWithNamespace",
                    [fn |-> e.Namespaces[namespace][functionName],
                     args |-> StrArgs(args), namespace |-> namespace], e)
     ELSE IF cmd.Verb \in builtins THEN builtin(cmd.Verb, args, e)
     ELSE [res |-> UnknownCommand(cmd), e |-> e]

\* e.scope.CurrentNamespace
CurrentNamespace(e) == e.scopes[Len(e.scopes)].CurrentNamespace

\* verb resolution that prefers a built-in to a function of the same name and
\* knows no namespace context
InvokeVerb_Mut(cmd, args, e) ==
  IF cmd.Verb \in DOMAIN RootFunctions(e) /\ cmd.Verb \notin builtins
  THEN callFunction(RootFunctions(e)[cmd.Verb], StrArgs(args), e)
  ELSE handleNonLocalFunction(cmd, args, e)

\* evalCommand, verb resolution: a function of the root scope, then a function
\* of the namespace the current scope names, then handleNonLocalFunction
InvokeVerb(cmd, args, e) ==
  IF cmd.Verb \in DOMAIN RootFunctions(e)
  THEN callFunction(RootFunctions(e)[cmd.Verb], StrArgs(args), e)
  ELSE IF /\ CurrentNamespace(e) # ""
          /\ CurrentNamespace(e) \in DOMAIN e.Namespaces
          /\ cmd.Verb \in DOMAIN e.Namespaces[CurrentNamespace(e)]
  THEN callFunction(e.Namespaces[CurrentNamespace(e)][cmd.Verb], StrArgs(args), e)
  ELSE handleNonLocalFunction(cmd, args, e)

\* evalCommand, the error policy applied to the verb's result r = [res, e]
ApplyPolicy(cmd, r) ==
  LET rs == r.res IN
  IF rs.Error # "" \/ rs.Status # 0
  THEN IF cmd.ErrorPolicy = IgnoreError
       THEN [res |-> Result(rs.Status), e |-> r.e]
       ELSE IF cmd.ErrorPolicy = FallbackOnError /\ cmd.Fallback.kind # "None"
       THEN [res |-> Result(0), e |-> Call("evalCommand", cmd.Fallback, r.e).e]
       ELSE IF cmd.ErrorPolicy = TryFallbackHalt /\ cmd.Fallback.kind # "None"
       THEN [res |-> HaltResult(rs.Status), e |-> Call("evalCommand", cmd.Fallback, r.e).e]
       ELSE IF cmd.ErrorPolicy = FailFast
       THEN [res |-> [rs EXCEPT !.Halt = TRUE], e |-> r.e]
       ELSE r
  ELSE r

\* what evalCommand returns, logged: the verb's own result, the returned
\* result and the value of `status` in the current scope at that moment
\* (`from` is the log index of the verb's invocation, 0 when it never was),
\* the streams at the start of the call (orig) and at its end, and the
\* descriptors
CmdReturn(cmd, orig, from, raw, r) ==
  [res |-> r.res,
   e |-> Log(r.e, [ev |-> "return", Line |-> cmd.Line, cmd |-> cmd, from |-> from,
                   raw |-> raw, ret |-> r.res,
                   status |-> ScopeGet(r.e, "status").val,
                   orig |-> orig, std |-> r.e.std, fds |-> r.e.fds])]

\* os.OpenFile(target, O_CREATE|...): fails on a directory and in a directory
\* that does not exist; the new file takes the next descriptor
CanOpen(target) == target \notin {".", "/nonexistent/out"}

OpenFile(e, kind, target) ==
  [e EXCEPT !.fds = Append(@, [kind |-> kind, name |-> target, open |-> TRUE])]

\* the descriptor of the file opened last
LastFd(e) == Len(e.fds)

\* f.Close() of the descriptor fd
CloseFd(e, fd) == [e EXCEPT !.fds[fd].open = FALSE]

\* evalCommand's loop over cmd.Redirects: [e, err, stdoutFile, stderrFile],
\* a descriptor 0 being the nil *os.File
RECURSIVE OpenRedirects(_, _, _, _, _)
OpenRedirects(redirects, i, e, stdoutFile, stderrFile) ==
  IF i > Len(redirects)
  THEN [e |-> e, err |-> "", stdoutFile |-> stdoutFile, stderrFile |-> stderrFile]
  ELSE IF redirects[i].Type \notin {">", ">>", "2>"}
  THEN OpenRedirects(redirects, i + 1, e, stdoutFile, stderrFile)
  ELSE IF ~CanOpen(redirects[i].Target)
  THEN [e |-> e, err |-> "redirect: open failed",
        stdoutFile |-> stdoutFile, stderrFile |-> stderrFile]
  ELSE LET f == OpenFile(e, "file", redirects[i].Target)
       IN IF redirects[i].Type = "2>"
          THEN OpenRedirects(redirects, i + 1,
                             [f EXCEPT !.std.Stderr = LastFd(f)], stdoutFile, LastFd(f))
          ELSE OpenRedirects(redirects, i + 1,
                             [f EXCEPT !.std.Stdout = LastFd(f)], LastFd(f), stderrFile)

\* evalCommand after the verb: the files of the redirections are closed and
\* os.Stdout, os.Stderr set back to orig, the streams at the command's start
CloseRedirects(o, orig, e) ==
  LET e1 == IF o.stdoutFile # 0
            THEN [CloseFd(e, o.stdoutFile) EXCEPT !.std.Stdout = orig.Stdout]
            ELSE e
  IN IF o.stderrFile # 0
     THEN [CloseFd(e1, o.stderrFile) EXCEPT !.std.Stderr = orig.Stderr]
     ELSE e1

evalCommand(cmd, e) ==
  LET Invoked(o, v) ==
        CmdReturn(cmd, e.std, Len(e.trace) + 1, v.res,
                  ApplyPolicy(cmd, [res |-> v.res,
                                    e |-> updateStatus(CloseRedirects(o, e.std, v.e),
                                                       v.res)]))
      Redirected(a, o) ==
        IF o.err # ""
        THEN CmdReturn(cmd, e.std, 0, ErrorResult(o.err),
                       [res |-> ErrorResult(o.err),
                        e |-> updateStatus(o.e, ErrorResult(o.err))])
        ELSE Invoked(o, InvokeVerb(cmd, a.vals,
                                   Log(o.e, [ev |-> "invoke", Line |-> cmd.Line, cmd |-> cmd,
                                             namespace |-> CurrentNamespace(e)])))
      WithArgs(a) ==
        IF a.hung THEN CutOff(e)
        ELSE IF a.err # ""
        THEN CmdReturn(cmd, e.std, 0, ErrorResult(a.err),
                       [res |-> ErrorResult(a.err),
                        e |-> updateStatus(e, ErrorResult(a.err))])
        ELSE Redirected(a, OpenRedirects(cmd.Redirects, 1, e, 0, 0))
  IN WithArgs(evalArgs(cmd.Args, 1, e, <<>>))

\* one item of a body, as the type switch of evalBlock dispatches it
EvalItem(v, e) ==
  CASE v.kind = "Cmd" -> Call("evalCommand", v, e)
    [] v.kind = "Pipeline" -> Call("evalPipeline", v, e)
    [] v.kind = "Block" -> IF v.Type = CustomBlock THEN Call("evalControlStructure", v, e)
                            ELSE Call("evalBlock", v, e)

\* evalBlock testing only the error, not the halt
BlockStops_Mut(res) == res.Error # ""

\* evalBlock stops at a result with an error or with Halt set
BlockStops(res) == res.Error # "" \/ res.Halt

RECURSIVE evalBlockFrom(_, _, _)
evalBlockFrom(block, i, e) ==
  IF i > Len(block.Body) THEN [res |-> Result(0), e |-> e]
  ELSE LET r == EvalItem(block.Body[i], e)
       IN IF BlockStops(r.res) THEN r ELSE evalBlockFrom(block, i + 1, r.e)

Leave(block, fn, from, r) ==
  [res |-> r.res,
   e |-> Log(r.e, [ev |-> "leave", fn |-> fn, Line |-> block.Line, from |-> from,
                   ret |-> r.res])]

Enter(block, fn, e) == Log(e, [ev |-> "enter", fn |-> fn, Line |-> block.Line])

evalBlock(block, e) ==
  Leave(block, "evalBlock", Len(e.trace) + 1,
        evalBlockFrom(block, 1, Enter(block, "evalBlock", e)))

\* ------------------------------------------------------ control structures
\* strings.HasPrefix(arg, "$") and strings.TrimPrefix(arg, "$") on the
\* condition words of the family
TrimDollar == [w \in {"$undef", "$i"} |-> IF w = "$undef" THEN "undef" ELSE "i"]

HasDollarPrefix(arg) == arg \in DOMAIN TrimDollar

\* evalIf's synthetic condition command: a Cmd literal without Line or Column
IfConditionCmd(block) ==
  [kind |-> "Cmd", Verb |-> block.Args[1],
   Args |-> [i \in 1..(Len(block.Args) - 1) |->
               IF HasDollarPrefix(block.Args[i + 1])
               THEN VariableExpr(TrimDollar[block.Args[i + 1]])
               ELSE LiteralExpr(block.Args[i + 1])],
   Redirects |-> <<>>, ErrorPolicy |-> FailFast, Fallback |-> NoCmd,
   Line |-> 0, Column |-> 0]

\* evalWhile's synthetic condition command: every word a literal
WhileConditionCmd(block) ==
  [kind |-> "Cmd", Verb |-> block.Args[1],
   Args |-> [i \in 1..(Len(block.Args) - 1) |-> LiteralExpr(block.Args[i + 1])],
   Redirects |-> <<>>, ErrorPolicy |-> FailFast, Fallback |-> NoCmd,
   Line |-> 0, Column |-> 0]

IsElse(v) == v.kind = "Block" /\ v.Label = "else"

\* an item of an if, for or while body: nested blocks of any type go to
\* evalControlStructure
EvalBodyItem(v, e) ==
  CASE v.kind = "Cmd" -> Call("evalCommand", v, e)
    [] v.kind = "Pipeline" -> Call("evalPipeline", v, e)
    [] v.kind = "Block" -> Call("evalControlStructure", v, e)

\* evalIf, then-arm: an error or any halt is returned to the caller
IfStops(res) == res.Error # "" \/ res.Halt

RECURSIVE evalIfThen(_, _, _)
evalIfThen(block, i, e) ==
  IF i > Len(block.Body) \/ IsElse(block.Body[i]) THEN [res |-> Result(0), e |-> e]
  ELSE LET r == EvalBodyItem(block.Body[i], e)
       IN IF IfStops(r.res) THEN r ELSE evalIfThen(block, i + 1, r.e)

\* evalIf, else-arm: the first nested block labelled else, through evalBlock
evalIfElse(block, e) ==
  IF \E i \in 1..Len(block.Body) : IsElse(block.Body[i])
  THEN Call("evalBlock", block.Body[CHOOSE i \in 1..Len(block.Body) :
                              /\ IsElse(block.Body[i])
                              /\ \A j \in 1..(i - 1) : ~IsElse(block.Body[j])], e)
  ELSE [res |-> Result(0), e |-> e]

\* variant: the condition counts as satisfied on a non-zero status
ConditionHolds_Mut(condResult) == condResult.Status # 0

\* the condition of evalIf and evalWhile counts as satisfied on status 0
ConditionHolds(condResult) == condResult.Status = 0

evalIf(block, e) ==
  IF Len(block.Args) = 0
  THEN [res |-> ErrorResult("if: missing condition"), e |-> e]
  ELSE LET c == Call("evalCommand", IfConditionCmd(block), Enter(block, "evalIf", e))
       IN Leave(block, "evalIf", Len(e.trace) + 1,
                IF ConditionHolds(c.res) THEN evalIfThen(block, 1, c.e)
                ELSE evalIfElse(block, c.e))

\* what evalFor and evalWhile do with the result of a body item
LoopDisposition(res) ==
  IF res.Error # "" THEN "return"
  ELSE IF res.Halt
       THEN CASE res.HaltType = BreakHalt -> "break"
              [] res.HaltType = ContinueHalt -> "continue"
              [] res.HaltType \in {ReturnHalt, ExitHalt} -> "return"
              [] OTHER -> "next"
       ELSE "next"

RECURSIVE evalForItems(_, _, _)
RECURSIVE evalForBody(_, _, _, _)
evalForBody(block, k, i, e) ==
  IF i > Len(block.Body) THEN evalForItems(block, k + 1, e)
  ELSE LET r == EvalBodyItem(block.Body[i], e)
           d == LoopDisposition(r.res)
       IN CASE d = "return" -> r
            [] d = "break" -> [res |-> Result(r.res.Status), e |-> r.e]
            [] d = "continue" -> evalForItems(block, k + 1, r.e)
            [] d = "next" -> evalForBody(block, k, i + 1, r.e)

evalForItems(block, k, e) ==
  IF k > Len(block.Args) THEN [res |-> Result(0), e |-> e]
  ELSE evalForBody(block, k, 1,
                   Log(ScopeSet(e, block.Args[1], <<block.Args[k]>>),
                       [ev |-> "iter", Line |-> block.Line]))

evalFor(block, e) ==
  IF Len(block.Args) < 3 \/ block.Args[2] # "in"
  THEN [res |-> ErrorResult("for: invalid syntax, expected 'for var in list'"), e |-> e]
  ELSE Leave(block, "evalFor", Len(e.trace) + 1,
             evalForItems(block, 3, Enter(block, "evalFor", e)))


RECURSIVE evalWhileLoop(_, _)
RECURSIVE evalWhileBody(_, _, _)
evalWhileBody(block, i, e) ==
  IF i > Len(block.Body) THEN evalWhileLoop(block, e)
  ELSE LET r == EvalBodyItem(block.Body[i], e)
           d == LoopDisposition(r.res)
       IN CASE d = "return" -> r
            [] d = "break" -> [res |-> Result(r.res.Status), e |-> r.e]
            [] d = "continue" -> evalWhileLoop(block, r.e)
            [] d = "next" -> evalWhileBody(block, i + 1, r.e)

evalWhileLoop(block, e) ==
  IF Len(block.Args) = 0 THEN [res |-> Result(0), e |-> e]
  ELSE LET c == Call("evalCommand", WhileConditionCmd(block), e)
       IN IF ~ConditionHolds(c.res) THEN [res |-> Result(0), e |-> c.e]
          ELSE IF c.e.fuel = 0 THEN CutOff(c.e)
          ELSE evalWhileBody(block, 1,
                             Log([c.e EXCEPT !.fuel = @ - 1],
                                 [ev |-> "iter", Line |-> block.Line]))

evalWhile(block, e) ==
  Leave(block, "evalWhile", Len(e.trace) + 1,
        evalWhileLoop(block, Enter(block, "evalWhile", e)))

\* evalFor of internal/box/eval.go: the list is the one word after `in`, or
\* the words after `in glob`; an error or any halt of a body item is returned
RECURSIVE ForEvalGo(_, _, _, _, _)
ForEvalGo(block, items, k, i, e) ==
  IF k > Len(items) THEN [res |-> Result(0), e |-> e]
  ELSE IF i = 0
  THEN ForEvalGo(block, items, k, 1,
                 Log(ScopeSet(e, block.Args[1], <<items[k]>>),
                     [ev |-> "iter", Line |-> block.Line]))
  ELSE IF i > Len(block.Body) THEN ForEvalGo(block, items, k + 1, 0, e)
  ELSE LET r == EvalBodyItem(block.Body[i], e)
       IN IF r.res.Error # "" \/ r.res.Halt THEN r
          ELSE ForEvalGo(block, items, k, i + 1, r.e)

evalForEvalGo(block, e) ==
  IF Len(block.Args) < 3 \/ block.Args[2] # "in"
  THEN [res |-> ErrorResult("for: invalid syntax, expected 'for var in list'"), e |-> e]
  ELSE Leave(block, "evalFor", Len(e.trace) + 1,
             ForEvalGo(block,
                       IF block.Args[3] = "glob" /\ Len(block.Args) > 3
                       THEN SubSeq(block.Args, 4, Len(block.Args))
                       ELSE <<block.Args[3]>>,
                       1, 0, Enter(block, "evalFor", e)))

evalControlStructure(block, e) ==
  CASE block.Label = "if" -> evalIf(block, e)
    [] block.Label = "for" -> IF e.file = "internal/box/eval.go"
                              THEN evalForEvalGo(block, e) ELSE evalFor(block, e)
    [] block.Label = "while" -> evalWhile(block, e)
    [] OTHER -> Call("evalBlock", block, e)

\* ---------------------------------------------------------- function calls
\* strings.Contains(argName, "=") and strings.SplitN(argName, "=", 2) on the
\* declared argument names of the family
SplitDefault == [a \in {"mode=fast"} |-> <<"mode", "fast">>]

\* Scope.Child(): an empty scope whose Parent is e.scope
PushChild(e, namespace) ==
  [e EXCEPT !.scopes = Append(@, [Variables |-> <<>>, CurrentNamespace |-> namespace])]

\* the declared arguments, bound left to right
RECURSIVE BindDeclared(_, _, _, _)
BindDeclared(fnArgs, args, i, e) ==
  IF i > Len(fnArgs) THEN e
  ELSE IF fnArgs[i] \in DOMAIN SplitDefault
       THEN BindDeclared(fnArgs, args, i + 1,
              ScopeSet(e, SplitDefault[fnArgs[i]][1],
                       IF i <= Len(args) THEN <<args[i]>>
                       ELSE <<SplitDefault[fnArgs[i]][2]>>))
       ELSE BindDeclared(fnArgs, args, i + 1,
              IF i <= Len(args) THEN ScopeSet(e, fnArgs[i], <<args[i]>>) ELSE e)

\* the remaining arguments, bound as numbered parameters
RECURSIVE BindNumbered(_, _, _)
BindNumbered(args, i, e) ==
  IF i > Len(args) THEN e
  ELSE BindNumbered(args, i + 1, ScopeSet(e, Itoa(i), <<args[i]>>))

\* "Propagate all variables back to parent scope", then the deferred
\* e.scope = oldScope
PopChild(e) ==
  LET n == Len(e.scopes)
      child == e.scopes[n].Variables
      parent == e.scopes[n - 1].Variables
  IN [e EXCEPT !.scopes =
        [i \in 1..(n - 1) |->
           IF i = n - 1
           THEN [@[i] EXCEPT !.Variables =
                   [v \in (DOMAIN parent) \cup (DOMAIN child) |->
                      IF v \in DOMAIN child THEN child[v] ELSE parent[v]]]
           ELSE @[i]]]

\* callFunction of internal/box/eval.go: "Propagate status back to parent",
\* oldScope.Set("status", e.scope.Variables["status"]), a nil Value when the
\* callee never set status; then the deferred e.scope = oldScope
PopChildEvalGo(e) ==
  LET n == Len(e.scopes)
      child == e.scopes[n].Variables
  IN [e EXCEPT !.scopes =
        [i \in 1..(n - 1) |->
           IF i = n - 1
           THEN [@[i] EXCEPT !.Variables =
                   SetIn(@, "status",
                         IF "status" \in DOMAIN child THEN child["status"] ELSE <<>>)]
           ELSE @[i]]]

\* "Return from function should not halt the caller"
ConsumeReturn(res) ==
  IF res.Halt /\ res.HaltType = ReturnHalt
  THEN [res EXCEPT !.Halt = FALSE, !.HaltType = NoHalt]
  ELSE res

callFunctionWithNamespace(fn, args, namespace, e) ==
  LET bound == BindNumbered(args, Len(fn.Args) + 1,
                 BindDeclared(fn.Args, args, 1, PushChild(e, namespace)))
      r == Call("evalBlock", fn, Log(bound, [ev |-> "call", Line |-> fn.Line,
                                            namespace |-> namespace]))
  IN [res |-> ConsumeReturn(r.res),
      e |-> Log(IF e.file = "internal/box/eval.go" THEN PopChildEvalGo(r.e)
                ELSE PopChild(r.e),
                [ev |-> "callret", Line |-> fn.Line,
                                from |-> Len(e.trace) + 1,
                                ret |-> ConsumeReturn(r.res)])]

\* ---------------------------------------------------------------- pipelines
\* the exit codes collected newest first
StageCodes_Mut(exitCodes, res) == <<Itoa(res.Status)>> \o exitCodes

\* exitCodes = append(exitCodes, strconv.Itoa(result.Status))
StageCodes(exitCodes, res) == Append(exitCodes, Itoa(res.Status))

\* os.Pipe() once for every stage but the last: readers[i] is the descriptor
\* first + 2 * (i - 1), pipes[i] the one after it
RECURSIVE MakePipes(_, _)
MakePipes(e, n) ==
  IF n = 0 THEN e
  ELSE MakePipes(OpenFile(OpenFile(e, "reader", ""), "writer", ""), n - 1)

\* f.Close() of each descriptor of the sequence, in order
RECURSIVE CloseAll(_, _)
CloseAll(e, fds) == IF fds = <<>> THEN e ELSE CloseAll(CloseFd(e, Head(fds)), Tail(fds))

\* stage i of evalPipeline's loop and the stages after it; p holds the
\* pipeline, readers, pipes and the original streams, exitCodes and lastResult
\* are the loop's accumulators
RECURSIVE evalStages(_, _, _, _, _)
evalStages(p, i, exitCodes, lastResult, e) ==
  LET n == Len(p.pipeline.Commands)
      Restored(x) == [x EXCEPT !.std.Stdin = p.orig.Stdin, !.std.Stdout = p.orig.Stdout]
      Staged(r) ==
        IF r.res.Error # ""
        THEN [res |-> r.res,
              e |-> ScopeSet(CloseAll(Restored(r.e),
                                      SubSeq(p.pipes, i, n - 1) \o SubSeq(p.readers, i, n - 1)),
                             "status", StageCodes(exitCodes, r.res))]
        ELSE evalStages(p, i + 1, StageCodes(exitCodes, r.res), r.res, r.e)
      AfterStage(r) ==
        Staged(IF i < n THEN [res |-> r.res, e |-> CloseFd(r.e, p.pipes[i])] ELSE r)
  IN IF i > n
     THEN [res |-> lastResult,
           e |-> ScopeSet(CloseAll(Restored(e), p.readers), "status", exitCodes)]
     ELSE AfterStage(Call("evalCommand", p.pipeline.Commands[i],
                   [e EXCEPT !.std.Stdin = IF i > 1 THEN p.readers[i - 1] ELSE @,
                             !.std.Stdout = IF i < n THEN p.pipes[i] ELSE p.orig.Stdout]))

PipeReturn(pipeline, r) ==
  [res |-> r.res,
   e |-> Log(r.e, [ev |-> "pipe", Line |-> pipeline.Line, pipeline |-> pipeline,
                   ret |-> r.res,
                   status |-> ScopeGet(r.e, "status").val,
                   std |-> r.e.std, fds |-> r.e.fds])]

evalPipeline(pipeline, e) ==
  IF Len(pipeline.Commands) = 0 THEN [res |-> Result(0), e |-> e]
  ELSE IF Len(pipeline.Commands) = 1
  THEN LET r == Call("evalCommand", pipeline.Commands[1], e)
       IN PipeReturn(pipeline,
            [res |-> r.res, e |-> ScopeSet(r.e, "status", <<Itoa(r.res.Status)>>)])
  ELSE LET n == Len(pipeline.Commands)
           first == Len(e.fds) + 1
       IN PipeReturn(pipeline,
            evalStages([pipeline |-> pipeline, orig |-> e.std,
                        readers |-> [k \in 1..(n - 1) |-> first + 2 * (k - 1)],
                        pipes |-> [k \in 1..(n - 1) |-> first + 2 * (k - 1) + 1]],
                       1, <<>>, Result(0), MakePipes(e, n - 1)))

\* the call e.method(x) of one of the mutually recursive methods
Call(method, x, e) ==
  CASE method = "evalCommand" -> evalCommand(x, e)
    [] method = "evalPipeline" -> evalPipeline(x, e)
    [] method = "evalBlock" -> evalBlock(x, e)
    [] method = "evalControlStructure" -> evalControlStructure(x, e)
    [] method = "callFunctionWithNamespace" ->
         callFunctionWithNamespace(x.fn, x.args, x.namespace, e)

\* --------------------------------------------------------------- Eval, main
\* NewScope() and NewEvaluatorWithFilename: an empty root scope, and the state
\* of the process: the table spawnedProcs, the descriptors fds (a closed one
\* keeps its place) and, in std, the ones os.Stdin, os.Stdout, os.Stderr name
NewEvaluator ==
  [scopes |-> <<[Variables |-> <<>>, CurrentNamespace |-> ""]>>,
   Functions |-> <<>>,
   Namespaces |-> <<>>,
   spawnedProcs |-> <<>>,
   std |-> [Stdin |-> 1, Stdout |-> 2, Stderr |-> 3],
   fds |-> <<[kind |-> "stdin", name |-> "", open |-> TRUE],
             [kind |-> "stdout", name |-> "", open |-> TRUE],
             [kind |-> "stderr", name |-> "", open |-> TRUE]>>,
   fs |-> {".", "flag1", "flag2", "flag3"},
   stdout |-> <<>>,
   trace |-> <<>>,
   fuel |-> MaxWhileIter,
   diverged |-> FALSE,
   file |-> "unnamed/part_002"]

\* the evaluator of src/internal/box/eval.go: the same methods, of which
\* evalFor and callFunction differ in what the properties below observe
EvaluatorOfEvalGo == [NewEvaluator EXCEPT !.file = "internal/box/eval.go"]

\* Eval's first pass: every FuncBlock of program.Blocks, by label
CollectFunctions(prog) ==
  [name \in {prog.Blocks[i].Label : i \in {j \in 1..Len(prog.Blocks) :
                                             prog.Blocks[j].Type = FuncBlock}} |->
     prog.Blocks[CHOOSE i \in 1..Len(prog.Blocks) :
                   /\ prog.Blocks[i].Type = FuncBlock
                   /\ prog.Blocks[i].Label = name
                   /\ \A j \in (i + 1)..Len(prog.Blocks) :
                        ~(prog.Blocks[j].Type = FuncBlock /\ prog.Blocks[j].Label = name)]]

\* Evaluator.Eval with no command-line arguments
Eval(prog, e) ==
  LET e1 == ScopeSet(ScopeSet(e, "argv", <<>>), "status", <<"0">>)
      e2 == [e1 EXCEPT !.Functions = CollectFunctions(prog),
                       !.Namespaces = IF "Namespaces" \in DOMAIN prog
                                      THEN prog.Namespaces ELSE <<>>]
  IN IF prog.Main.kind # "None"
     THEN LET r == Call("evalBlock", prog.Main, e2)
          IN IF r.res.Error # "" \/ r.res.Halt THEN r
             ELSE [res |-> Result(0), e |-> r.e]
     ELSE [res |-> Result(0), e |-> e2]

\* main: os.Exit(1) on an error, os.Exit(result.Status) otherwise
ExitStatus(res) == IF res.Error # "" THEN 1 ELSE res.Status

\* ------------------------------------------------------ the program family
\* A program is [main] echo before / ITEM / echo after, where ITEM is a probe
\* command wrapped in up to MaxDepth control structures or function calls, or
\* a pipeline of 2..MaxStages stages.  Every command and block has its own
\* Line, as in a parsed source with one command per line.
Echo(line, word) == Cmd(line, "echo", <<LiteralExpr(word)>>, FailFast, NoCmd)

\* source lines of the family: the probe is on line 50, its fallback on 51,
\* the fallback's own fallback on 52; a pipeline is on line 60 and its k-th
\* stage is given line 60 + k; the wrapper at depth d uses lines 100 * d + ..

ProbeVerbs ==
  { <<"echo", <<LiteralExpr("x")>> >>,
    <<"exists", <<LiteralExpr("/nonexistent")>> >>,
    <<"nosuch", <<>> >>,
    <<"echo", <<VariableExpr("undef")>> >>,
    <<"exit", <<>> >>,
    <<"exit", <<LiteralExpr("2")>> >>,
    <<"return", <<LiteralExpr("0")>> >>,
    <<"return", <<LiteralExpr("3")>> >>,
    <<"break", <<>> >>,
    <<"continue", <<>> >> }

Fallbacks ==
  { Echo(51, "fallback"),
    Cmd(51, "exists", <<LiteralExpr("/bad2")>>, FailFast, NoCmd),
    Cmd(51, "exit", <<LiteralExpr("0")>>, FailFast, NoCmd),
    Cmd(51, "exists", <<LiteralExpr("/bad2")>>, FallbackOnError,
        Echo(52, "double fallback")) }

HaltFallbacks ==
  { Echo(51, "critical error"),
    Cmd(51, "exists", <<LiteralExpr("/bad2")>>, FailFast, NoCmd) }

Probes ==
  {Cmd(50, v[1], v[2], FailFast, NoCmd) : v \in ProbeVerbs}
  \cup {Cmd(50, v[1], v[2], IgnoreError, NoCmd) : v \in ProbeVerbs}
  \cup {Cmd(50, v[1], v[2], FallbackOnError, f) : v \in ProbeVerbs, f \in Fallbacks}
  \cup {Cmd(50, v[1], v[2], TryFallbackHalt, f) : v \in ProbeVerbs, f \in HaltFallbacks}

WrapKinds == {"if", "else", "for", "while", "fn", "fnq"}

Nestings == UNION {[1..d -> WrapKinds] : d \in 0..MaxDepth}

FlagOf(d) == IF d = 1 THEN "flag1" ELSE IF d = 2 THEN "flag2" ELSE "flag3"

FnameOf(d) == IF d = 1 THEN "f1" ELSE IF d = 2 THEN "f2" ELSE "f3"

\* the wrapper of kind `kind` at depth d around inner = [item, fns]
Wrap(kind, d, inner) ==
  LET base == 100 * d
      after == Echo(base + 2, "after")
      body == <<inner.item, after>>
  IN CASE kind = "if" ->
            [item |-> Block(base, CustomBlock, "if", <<"exists", ".">>, body),
             fns |-> inner.fns]
       [] kind = "else" ->
            [item |-> Block(base, CustomBlock, "if", <<"exists", "/nonexistent">>,
                            <<Echo(base + 1, "then"),
                              Block(base + 3, CustomBlock, "else", <<>>, body)>>),
             fns |-> inner.fns]
       [] kind = "for" ->
            [item |-> Block(base, CustomBlock, "for", <<"i", "in", "1", "2">>, body),
             fns |-> inner.fns]
       [] kind = "while" ->
            [item |-> Block(base, CustomBlock, "while", <<"exists", FlagOf(d)>>,
                            <<inner.item,
                              Cmd(base + 2, "delete", <<LiteralExpr(FlagOf(d))>>,
                                  FailFast, NoCmd)>>),
             fns |-> inner.fns]
       [] kind \in {"fn", "fnq"} ->
            [item |-> Cmd(base, FnameOf(d), <<>>,
                          IF kind = "fn" THEN FailFast ELSE IgnoreError, NoCmd),
             fns |-> Append(inner.fns,
                            Block(base + 5, FuncBlock, FnameOf(d), <<>>,
                                  <<Echo(base + 1, "in function"), inner.item, after>>))]

RECURSIVE Build(_, _, _)
Build(nest, d, probe) ==
  IF d > Len(nest) THEN [item |-> probe, fns |-> <<>>]
  ELSE Wrap(nest[d], d, Build(nest, d + 1, probe))

MainOf(item) ==
  Block(1, MainBlock, "", <<>>, <<Echo(2, "before"), item, Echo(3, "after")>>)

ProgramOf(built) ==
  [Blocks |-> Append(built.fns, MainOf(built.item)), Main |-> MainOf(built.item)]

Stages ==
  { Echo(0, "x"),
    Cmd(0, "exists", <<LiteralExpr("/nonexistent")>>, FailFast, NoCmd),
    Cmd(0, "exit", <<LiteralExpr("2")>>, IgnoreError, NoCmd),
    Cmd(0, "nosuch", <<>>, FailFast, NoCmd),
    Cmd(0, "exists", <<LiteralExpr("/nonexistent")>>, FallbackOnError,
        Echo(51, "fallback")) }

PipelineOf(stages) ==
  Pipeline(60, [i \in 1..Len(stages) |-> [stages[i] EXCEPT !.Line = 60 + i]])

Programs ==
  {ProgramOf(Build(nest, 1, probe)) : nest \in Nestings, probe \in Probes}
  \cup {ProgramOf([item |-> PipelineOf(st), fns |-> <<>>]) :
          st \in UNION {[1..n -> Stages] : n \in 2..MaxStages}}

\* ---------------------------------------------------------- the state machine
\* the front end at rest: a parsed Program is given, nothing is being lexed
NoFrontEnd ==
  /\ source = <<>>
  /\ lexer = NewLexer("")
  /\ tokens = <<>>

Init ==
  /\ program \in Programs
  /\ pc = "start"
  /\ ev = NewEvaluator
  /\ result = Result(0)
  /\ exitCode = -1
  /\ NoFrontEnd

\* the interpreter evaluates the program; a run cut off in a while loop
\* never returns
RunEval ==
  /\ pc = "start"
  /\ LET r == Eval(program, ev)
     IN /\ ev' = r.e
        /\ result' = r.res
        /\ pc' = IF r.e.diverged THEN "hung" ELSE "evaluated"
  /\ UNCHANGED <<program, exitCode, source, lexer, tokens>>

\* main turns Eval's Result into the process exit status
MainExit ==
  /\ pc = "evaluated"
  /\ exitCode' = ExitStatus(result)
  /\ pc' = "exited"
  /\ UNCHANGED <<program, ev, result, source, lexer, tokens>>

Next == RunEval \/ MainExit

Spec == Init /\ [][Next]_vars

\* ======================================================================
\* Properties.  T is the observation log of the run.
T == ev.trace

Idx == 1..Len(T)

Evaluated == pc \in {"evaluated", "exited"}

\* the log entry i is the return of evalCommand for a command of the source
\* (evalIf and evalWhile build their condition commands with Line 0)
Written(i) == T[i].ev = "return" /\ T[i].cmd.Line # 0

Failed(res) == res.Error # "" \/ res.Status # 0

\* the call, block or command that started at log index j has ended before i
Closed(j, i) ==
  \E k \in (j + 1)..(i - 1) :
     T[k].ev \in {"return", "leave", "callret"} /\ T[k].from = j

\* no command that is still running at i, other than the one returning at
\* i, carries an error-policy suffix
PlainContext(i) ==
  \A j \in 1..(i - 1) :
     (T[j].ev = "invoke" /\ j # T[i].from /\ ~Closed(j, i))
        => T[j].cmd.ErrorPolicy = FailFast

\* how often the fallback of the command returning at i was invoked during
\* that command
FallbackRuns(i) ==
  Cardinality({k \in Idx : /\ T[i].from # 0
                           /\ T[i].from < k /\ k < i
                           /\ T[k].ev = "invoke"
                           /\ T[k].cmd = T[i].cmd.Fallback})

\* nothing runs after log index i: no verb is invoked, no iteration starts
NothingRunsAfter(i) ==
  \A k \in (i + 1)..Len(T) : T[k].ev \notin {"invoke", "iter"}

\* the [main] or function block whose body holds cmd as a direct item
BodiesOf(cmd) ==
  {b \in 1..Len(program.Blocks) :
     /\ program.Blocks[b].Type \in {MainBlock, FuncBlock}
     /\ \E j \in 1..Len(program.Blocks[b].Body) : program.Blocks[b].Body[j] = cmd}

\* the commands that are stages of a pipeline of the [main] body
StageCmds ==
  UNION {{program.Main.Body[j].Commands[k] :
            k \in 1..Len(program.Main.Body[j].Commands)} :
         j \in {n \in 1..Len(program.Main.Body) :
                  program.Main.Body[n].kind = "Pipeline"}}

\* the innermost function call running at log index i, 0 when there is none
OpenCalls(i) == {j \in 1..(i - 1) : T[j].ev = "call" /\ ~Closed(j, i)}

InnermostCall(i) ==
  IF OpenCalls(i) = {} THEN 0
  ELSE CHOOSE j \in OpenCalls(i) : \A k \in OpenCalls(i) : k <= j

\* ---------------------------------------------------------------------- C1
FailsInBody(i) ==
  /\ Written(i)
  /\ T[i].cmd.ErrorPolicy = FailFast
  /\ Failed(T[i].raw)
  /\ BodiesOf(T[i].cmd) # {}

\* C1: when a command without suffix that is a direct item of a [main] or
\* function body ends with a non-zero status or an error, evalBlock returns
\* at once (the next thing that happens is that body's evalBlock leaving, so
\* no later command of the body runs) and it returns a result that stops the
\* callers (Halt set, or an error) and carries the command's status and error.
C1_FailFastAbortsBody ==
  \A i \in Idx :
     FailsInBody(i) =>
        /\ i < Len(T)
        /\ T[i + 1].ev = "leave"
        /\ T[i + 1].fn = "evalBlock"
        /\ \E b \in BodiesOf(T[i].cmd) : program.Blocks[b].Line = T[i + 1].Line
        /\ T[i + 1].ret = T[i].ret
        /\ (T[i].ret.Halt \/ T[i].ret.Error # "")
        /\ T[i].ret.Status = T[i].raw.Status
        /\ T[i].ret.Error = T[i].raw.Error

\* a built-in with status 1 failed in a function body that still had a
\* command to run, and the run is over
C1_Witness ==
  /\ Evaluated
  /\ \E i \in Idx : /\ FailsInBody(i)
                    /\ T[i].cmd.Verb = "exists"
                    /\ T[i].raw.Status = 1
                    /\ \E b \in BodiesOf(T[i].cmd) : program.Blocks[b].Type = FuncBlock

\* ---------------------------------------------------------------------- C2
\* C2: evalCommand of a command with the Ignore policy (`C ?`) returns a
\* result with no halt and no error, whatever C did.
C2_IgnoreNeverHalts ==
  \A i \in Idx :
     (Written(i) /\ T[i].cmd.ErrorPolicy = IgnoreError)
        => (~T[i].ret.Halt /\ T[i].ret.Error = "")

\* ---------------------------------------------------------------------- C3
\* C3: for `C1 ! C2`: if C1 succeeds (and does not itself halt) C2 is not run
\* and the result does not halt; if C1 fails C2 runs exactly once, the result
\* halts with C1's status, and a script whose body holds the command does not
\* end with exit status 0.
C3_FallbackThenHalt ==
  \A i \in Idx :
     (Written(i) /\ T[i].cmd.ErrorPolicy = TryFallbackHalt) =>
        /\ (~Failed(T[i].raw) /\ ~T[i].raw.Halt)
              => (FallbackRuns(i) = 0 /\ ~T[i].ret.Halt)
        /\ Failed(T[i].raw)
              => /\ FallbackRuns(i) = 1
                 /\ T[i].ret.Halt
                 /\ T[i].ret.Status = T[i].raw.Status
                 /\ (Evaluated /\ T[i].cmd \in {program.Main.Body[j] :
                                                  j \in 1..Len(program.Main.Body)})
                       => ExitStatus(result) # 0

\* ---------------------------------------------------------------------- C4
\* C4: for `C1 ? C2`: if C1 succeeds C2 is not run; if C1 fails C2 runs exactly
\* once and evalCommand returns status 0 with no halt and no error, whatever
\* C2 did, also when C2 is itself a `? fallback` command.
C4_FallbackThenContinue ==
  \A i \in Idx :
     (Written(i) /\ T[i].cmd.ErrorPolicy = FallbackOnError) =>
        /\ ~Failed(T[i].raw) => FallbackRuns(i) = 0
        /\ Failed(T[i].raw) => (FallbackRuns(i) = 1 /\ T[i].ret = Result(0))

\* ---------------------------------------------------------------------- C5
\* C5: once a command without suffix has ended with a non-zero status (at
\* any depth: in an if arm, a loop body, a called function; stated for the
\* commands that are no pipeline stage and that no `?` or `!` command
\* encloses), nothing runs any more: no verb is invoked, no loop iteration
\* starts, and Eval returns a halting result with that status.
C5_FailFastUnwindsAll ==
  \A i \in Idx :
     (/\ Written(i)
      /\ T[i].cmd.ErrorPolicy = FailFast
      /\ T[i].raw.Status # 0
      /\ T[i].cmd \notin StageCmds
      /\ PlainContext(i))
        => /\ NothingRunsAfter(i)
           /\ Evaluated => (result.Halt /\ result.Status = T[i].raw.Status)

\* ---------------------------------------------------------------------- C6
\* C6 as claimed: after every evalCommand, whatever the policy, `status` is
\* the one-element list with the decimal form of that command's own exit
\* status (the status of its verb, or the status evalCommand returns).
C6_StatusIsOwnExit ==
  \A i \in Idx :
     T[i].ev = "return" =>
        T[i].status \in {<<Itoa(T[i].raw.Status)>>, <<Itoa(T[i].ret.Status)>>}

\* C6, amended: after every evalCommand, `status` is the one-element list
\* with the decimal form of the status of the command's own verb when no
\* fallback was run, and it is what the fallback left in `status` when the
\* fallback was run (the fallback is the last thing evalCommand does).
C6_StatusIsLastExit ==
  \A i \in Idx :
     T[i].ev = "return" =>
        IF FallbackRuns(i) = 0
        THEN T[i].status = <<Itoa(T[i].raw.Status)>>
        ELSE /\ T[i - 1].ev = "return"
             /\ T[i - 1].cmd = T[i].cmd.Fallback
             /\ T[i].status = T[i - 1].status
             /\ Len(T[i].status) = 1

\* inside a user function a failing command ran its fallback, the fallback
\* left a status that is not the command's, and the call of the function has
\* returned with `status` holding the function's status
C6_Witness ==
  /\ \E i \in Idx : /\ Written(i)
                    /\ FallbackRuns(i) = 1
                    /\ T[i].status # <<Itoa(T[i].raw.Status)>>
                    /\ InnermostCall(i) # 0
  /\ \E i \in Idx : /\ Written(i)
                    /\ T[i].cmd.Verb \notin builtins
                    /\ T[i].cmd.Verb # "nosuch"
                    /\ FallbackRuns(i) = 0
                    /\ T[i].status = <<Itoa(T[i].raw.Status)>>

\* ---------------------------------------------------------------------- C7
\* the log index of the return of stage k of the pipeline that returned at
\* i, 0 when that stage never ran
StageReturn(i, k) ==
  IF \E j \in 1..(i - 1) :
        T[j].ev = "return" /\ T[j].cmd = T[i].pipeline.Commands[k]
  THEN CHOOSE j \in 1..(i - 1) :
          T[j].ev = "return" /\ T[j].cmd = T[i].pipeline.Commands[k]
  ELSE 0

StagesOf(i) == 1..Len(T[i].pipeline.Commands)

\* C7 as claimed: after evalPipeline has run a pipeline of N >= 2 stages,
\* `status` is a list of exactly N decimal integers, the i-th being the exit
\* status of the i-th stage, and the result status is the last stage's.
C7_StatusListOfAllStages ==
  \A i \in Idx :
     (T[i].ev = "pipe" /\ Len(T[i].pipeline.Commands) >= 2) =>
        /\ Len(T[i].status) = Len(T[i].pipeline.Commands)
        /\ \A k \in StagesOf(i) :
              /\ StageReturn(i, k) # 0
              /\ T[i].status[k] = Itoa(T[StageReturn(i, k)].ret.Status)
        /\ T[i].ret.Status =
              T[StageReturn(i, Len(T[i].pipeline.Commands))].ret.Status

\* the stages of the pipeline that returned at i that were run
StagesRun(i) == {k \in StagesOf(i) : StageReturn(i, k) # 0}

\* C7, amended: after evalPipeline has run a pipeline of N >= 2 stages, the
\* stages that ran are the first M in source order, where M = N unless a
\* stage returned a hard error, and then M is that stage (no later stage
\* runs); `status` is the list of exactly M decimal integers whose k-th
\* element is the status returned for the k-th stage, and the pipeline's
\* result is the result of stage M.
C7_StatusListOfStagesRun ==
  \A i \in Idx :
     (T[i].ev = "pipe" /\ Len(T[i].pipeline.Commands) >= 2) =>
        LET N == Len(T[i].pipeline.Commands)
            M == Cardinality(StagesRun(i))
        IN /\ StagesRun(i) = 1..M
           /\ M >= 1
           /\ \A k \in 1..(M - 1) :
                 /\ StageReturn(i, k) < StageReturn(i, k + 1)
                 /\ T[StageReturn(i, k)].ret.Error = ""
           /\ M < N => T[StageReturn(i, M)].ret.Error # ""
           /\ Len(T[i].status) = M
           /\ \A k \in 1..M : T[i].status[k] = Itoa(T[StageReturn(i, k)].ret.Status)
           /\ T[i].ret = T[StageReturn(i, M)].ret

\* a pipeline whose stages returned different statuses ran to its last
\* stage, and another one was cut short by a hard error
C7_Witness ==
  \E i \in Idx :
     /\ T[i].ev = "pipe"
     /\ Len(T[i].pipeline.Commands) >= 2
     /\ Len(T[i].status) = Len(T[i].pipeline.Commands)
     /\ T[i].status[1] # T[i].status[2]
     /\ T[i].ret.Status # 0

C7_WitnessAborted ==
  \E i \in Idx :
     /\ T[i].ev = "pipe"
     /\ Cardinality(StagesRun(i)) < Len(T[i].pipeline.Commands)
     /\ T[i].status[1] # "0"

\* ---------------------------------------------------------------------- C8
\* C8: `return N` (no suffix) executed inside a function ends that function
\* only: no further command runs before the call returns, the call returns
\* status N without error, and when N = 0 the command that called the
\* function returns without halt, so that the caller's next command runs.
C8_ReturnEndsOnlyFunction ==
  \A i \in Idx :
     (/\ Written(i)
      /\ T[i].cmd.Verb = "return"
      /\ T[i].cmd.ErrorPolicy = FailFast
      /\ PlainContext(i)
      /\ InnermostCall(i) # 0)
        => \E r \in (i + 1)..Len(T) :
              /\ T[r].ev = "callret"
              /\ T[r].from = InnermostCall(i)
              /\ \A k \in (i + 1)..(r - 1) : T[k].ev \notin {"invoke", "iter"}
              /\ T[r].ret.Status = T[i].raw.Status
              /\ T[r].ret.Error = ""
              /\ r < Len(T)
              /\ T[r + 1].ev = "return"
              /\ T[r + 1].from = InnermostCall(i) - 1
              /\ T[i].raw.Status = 0 => ~T[r + 1].ret.Halt

\* ---------------------------------------------------------------------- C9
\* C9: once `exit N` (no suffix, enclosed by no `?` or `!` command) has been
\* executed, at any depth, nothing runs any more, Eval reports no error, and
\* the interpreter's exit status is N.
C9_ExitTerminatesScript ==
  \A i \in Idx :
     (/\ Written(i)
      /\ T[i].cmd.Verb = "exit"
      /\ T[i].cmd.ErrorPolicy = FailFast
      /\ T[i].cmd \notin StageCmds
      /\ PlainContext(i))
        => /\ NothingRunsAfter(i)
           /\ Evaluated => (result.Error = "" /\ ExitStatus(result) = T[i].raw.Status)
           /\ pc = "exited" => exitCode = T[i].raw.Status

\* --------------------------------------------------------------------- C10
\* the calls and loops running at log index i
OpenFrames(i) ==
  {j \in 1..(i - 1) :
     /\ \/ T[j].ev = "call"
        \/ (T[j].ev = "enter" /\ T[j].fn \in {"evalFor", "evalWhile"})
     /\ ~Closed(j, i)}

InnermostFrame(i) ==
  IF OpenFrames(i) = {} THEN 0
  ELSE CHOOSE j \in OpenFrames(i) : \A k \in OpenFrames(i) : k <= j

\* C10: `break` (no suffix) executed in the body of a for or while loop ends
\* that loop: nothing runs before the loop returns, the loop returns without
\* halt or error, and the command after the loop is the next to run.
C10_BreakEndsNearestLoop ==
  \A i \in Idx :
     (/\ Written(i)
      /\ T[i].cmd.Verb = "break"
      /\ T[i].cmd.ErrorPolicy = FailFast
      /\ InnermostFrame(i) # 0
      /\ T[InnermostFrame(i)].ev = "enter")
        => \E r \in (i + 1)..Len(T) :
              /\ T[r].ev = "leave"
              /\ T[r].from = InnermostFrame(i)
              /\ \A k \in (i + 1)..(r - 1) : T[k].ev \notin {"invoke", "iter"}
              /\ ~T[r].ret.Halt
              /\ T[r].ret.Error = ""
              /\ r < Len(T)
              /\ T[r + 1].ev = "invoke"

\* ---------------------------------------------- the sources of the front end
\* longest command line, in tokens
MaxTokens == 4
\* most blocks in a source
MaxBlocks == 3

\* one command line over echo, a, `?` and `!`, alone or followed by the line
\* `echo b`
CommandSources ==
  LET Lexemes == {Tok("WORD", "echo"), Tok("WORD", "a"),
                  Tok("IGNORE_ERROR", "?"), Tok("WORD", "!")}
      CommandLines == UNION {[1..n -> Lexemes] : n \in 1..MaxTokens}
  IN {<<l>> : l \in CommandLines}
     \cup {<<l, <<Tok("WORD", "echo"), Tok("WORD", "b")>> >> : l \in CommandLines}

\* up to MaxBlocks blocks; the k-th block is its header, one body line and
\* `end`; [main] calls f, every other block echoes its own position k
BlockSources ==
  LET Headers == {"[main]", "[fn f]", "[fn g]", "[data d]", "[data f]"}
      BlockLines(header, k) ==
        << <<Tok("HEADER_START", header)>>,
           IF header = "[main]" THEN <<Tok("WORD", "f")>>
           ELSE <<Tok("WORD", "echo"), Tok("WORD", Itoa(k))>>,
           <<Tok("BLOCK_END", "end")>> >>
      RECURSIVE BlockSource(_, _)
      BlockSource(headers, k) ==
        IF k > Len(headers) THEN <<>>
        ELSE BlockLines(headers[k], k) \o BlockSource(headers, k + 1)
  IN {BlockSource(hs, 1) : hs \in UNION {[1..n -> Headers] : n \in 1..MaxBlocks}}

\* ----------------------------------------- the state machine with a parser
\* a source is given to the front end; nothing is parsed or evaluated yet
InitSource(sources) ==
  /\ source \in sources
  /\ pc = "parse"
  /\ program = NewProgram
  /\ ev = NewEvaluator
  /\ result = Result(0)
  /\ exitCode = -1
  /\ lexer = NewLexer("")
  /\ tokens = <<>>

InitParse == InitSource(CommandSources \cup BlockSources)

\* what the caller of a parser does with [program, err]: a parse error is
\* printed and the process exits with status 1, a Program is evaluated
AfterParse(r) ==
  /\ program' = IF r.err # "" THEN program ELSE r.program
  /\ result' = IF r.err # "" THEN ErrorResult(r.err) ELSE result
  /\ exitCode' = IF r.err # "" THEN 1 ELSE exitCode
  /\ pc' = IF r.err # "" THEN "parse_error" ELSE "start"
  /\ UNCHANGED <<ev, source, lexer>>

\* main: NewParticleParser(filename), ParseString(source)
MainParse ==
  /\ pc = "parse"
  /\ tokens' = ParticleTokens(source, 1)
  /\ AfterParse(ParseString(source))

\* the parser tests: NewLexer(input), NewParser(lexer), Parse()
TestParse ==
  /\ pc = "parse"
  /\ tokens' = LexerTokens(source, 1)
  /\ AfterParse(Parse(source))

NextParse == MainParse \/ TestParse \/ RunEval \/ MainExit

ParseSpec == InitParse /\ [][NextParse]_vars

\* ---------------------------------------------------- parsing: helpers
\* a Program came out of the parser
Parsed == source # <<>> /\ pc \in {"start", "evaluated", "hung", "exited"}

ParseFailed == source # <<>> /\ pc = "parse_error"

\* a command and the commands of its fallback chain
RECURSIVE WithFallbacks(_)
WithFallbacks(cmd) ==
  IF cmd.Fallback.kind = "None" THEN {cmd}
  ELSE {cmd} \cup WithFallbacks(cmd.Fallback)

\* every Cmd of the parsed Program
ParsedCmds ==
  UNION {UNION {WithFallbacks(program.Blocks[b].Body[i]) :
                  i \in 1..Len(program.Blocks[b].Body)} :
           b \in 1..Len(program.Blocks)}

\* the token is `?` or `!`
IsMarker(tok) == tok.Kind = "IGNORE_ERROR" \/ (tok.Kind = "WORD" /\ tok.Value = "!")

\* the position of the first `?` or `!` of a line, 0 if it has none
FirstMarker(line) ==
  IF \E i \in 1..Len(line) : IsMarker(line[i])
  THEN CHOOSE i \in 1..Len(line) :
         IsMarker(line[i]) /\ \A j \in 1..(i - 1) : ~IsMarker(line[j])
  ELSE 0

\* the line is `verb args`, `verb args ?`, `verb args ? cmd2` or
\* `verb args ! cmd2`, with cmd2 starting with a verb
HasSuffixForm(line) ==
  LET m == FirstMarker(line)
  IN /\ ~IsMarker(line[1])
     /\ m # 0 /\ m = Len(line) => line[m].Kind = "IGNORE_ERROR"
     /\ m # 0 /\ m < Len(line) => ~IsMarker(line[m + 1])

\* the policy the suffix of the line stands for
PolicyOfSuffix(line) ==
  LET m == FirstMarker(line)
  IN IF m = 0 THEN FailFast
     ELSE IF m = Len(line) THEN IgnoreError
     ELSE IF line[m].Kind = "IGNORE_ERROR" THEN FallbackOnError
     ELSE TryFallbackHalt

\* C11: every command of a parsed Program has the policy and the fallback of
\* its suffix (none: FailFast, no fallback; trailing `?`: IgnoreError, no
\* fallback; `? cmd2`: FallbackOnError with cmd2; `! cmd2`: TryFallbackHalt
\* with cmd2), so the policy is a fallback policy exactly when there is a
\* fallback, and `?` or `!` is never an argument.
C11_SuffixGivesPolicy ==
  Parsed /\ (source[1][1].Kind = "HEADER_START" \/ HasSuffixForm(source[1])) =>
    /\ \A c \in ParsedCmds :
         /\ c.ErrorPolicy \in {FallbackOnError, TryFallbackHalt}
              <=> c.Fallback.kind # "None"
         /\ \A k \in 1..Len(c.Args) :
              ~(c.Args[k].type = "Literal" /\ c.Args[k].Value \in {"?", "!"})
    /\ source[1][1].Kind # "HEADER_START" /\ HasSuffixForm(source[1]) =>
         LET line == source[1]
             m == FirstMarker(line)
             c == program.Main.Body[1]
         IN /\ c.Verb = line[1].Value
            /\ c.ErrorPolicy = PolicyOfSuffix(line)
            /\ Len(c.Args) = (IF m = 0 THEN Len(line) ELSE m - 1) - 1
            /\ IF m = 0 \/ m = Len(line) THEN c.Fallback.kind = "None"
               ELSE /\ c.Fallback.kind = "Cmd"
                    /\ c.Fallback.Verb = line[m + 1].Value
                    /\ c.Fallback.Line = 1

\* ------------------------------------------------ C17: duplicate blocks
\* the header lines of the source
HeaderLines == {n \in 1..Len(source) : source[n][1].Kind = "HEADER_START"}

\* two function blocks or two data blocks of one name, or two [main] blocks
\* (in the family a header text is the block's kind and name)
HasDuplicateBlock ==
  \E m, n \in HeaderLines : m < n /\ source[m][1].Value = source[n][1].Value

\* C17: a source with two function blocks of one name, two data blocks of one
\* name or more than one [main] block is rejected with a parse error and no
\* Program is produced.
C17_DuplicatesRejected ==
  source # <<>> /\ pc # "parse" /\ HasDuplicateBlock => ParseFailed

\* ======================================================================
\* Expansion: sources `set x ELEMENTS` / `echo ARGUMENT`, where the argument
\* is a quoted text with one reference in it or a standalone variable, and
\* sources `set v $(INNER)` / `echo done`, where the inner program echoes.

\* most elements of the list x, and most lines an inner program writes
MaxElems == 2

DoubleQuoted(text) == Tok("DOUBLE_QUOTE", "\"" \o text \o "\"")

\* the text between the quotes of a quoted token
Unquote(tok) == SubSeq(tok.Value, 2, Len(tok.Value) - 1)

\* x is bound, u is not
IndexRefs == {"${x[*]}"} \cup {"${x[" \o Itoa(i) \o "]}" : i \in 0..MaxElems}

UnboundRefs == {"$u", "${u}"}

Refs == {"$x", "${x}"} \cup UnboundRefs \cup IndexRefs

ExpandSources ==
  LET Elements == {"a", "b c", "$"}
      Lists == UNION {[1..n -> Elements] : n \in 0..MaxElems}
      Texts == {pre \o ref \o post :
                  pre \in {"", "a ", "$ "}, ref \in Refs, post \in {"", " b", "x"}}
      Arguments == {DoubleQuoted(t) : t \in Texts}
                   \cup {Tok("SINGLE_QUOTE", "'" \o t \o "'") : t \in Texts}
                   \cup {Tok("VARIABLE", r) : r \in Refs}
  IN {<< <<Tok("WORD", "set"), Tok("WORD", "x")>>
           \o [i \in 1..Len(l) |-> DoubleQuoted(l[i])],
         <<Tok("WORD", "echo"), a>> >> : l \in Lists, a \in Arguments}

SubstitutionSources ==
  LET Echoed == {"a", " a", "a ", "\ta", ""}
      Inner == UNION {[1..n -> {<<Tok("WORD", "echo"), DoubleQuoted(w)>> : w \in Echoed}] :
                        n \in 1..MaxElems}
  IN {<< <<Tok("WORD", "set"), Tok("WORD", "v"), Tok("COMMAND_SUB", inner)>>,
         <<Tok("WORD", "echo"), Tok("WORD", "done")>> >> : inner \in Inner}

InitExpand == InitSource(ExpandSources \cup SubstitutionSources)

ExpandSpec == InitExpand /\ [][NextParse]_vars

\* ------------------------------------------------- expansion: helpers
\* the run of a `set x ...` / `echo ARGUMENT` source is over
Expanded == Evaluated /\ Len(source) = 2 /\ source[1][2].Value = "x"

\* the argument of the echo, and the elements x was set to
Argument == source[2][2]

Elements == [i \in 1..(Len(source[1]) - 2) |-> Unquote(source[1][i + 2])]

\* what a reference of IndexRefs stands for
IndexValue(ref) ==
  IF ref = "${x[*]}" THEN JoinSpace(Elements)
  ELSE LET i == CHOOSE k \in 0..MaxElems : ref = "${x[" \o Itoa(k) \o "]}"
       IN IF i < Len(Elements) THEN Elements[i + 1] ELSE ""

\* C12: the content of a single-quoted argument reaches the verb byte for
\* byte: echo writes exactly the text between the quotes, whatever is bound.
C12_SingleQuoteOpaque ==
  Expanded /\ Argument.Kind = "SINGLE_QUOTE" =>
    /\ result.Error = ""
    /\ ev.stdout = << <<Unquote(Argument)>> >>

\* C13: inside a literal, `${x[*]}` yields the elements of x joined by single
\* spaces and `${x[i]}` yields element i, or nothing when x has no element i.
C13_IndexedExpansion ==
  Expanded /\ Argument.Kind = "DOUBLE_QUOTE" =>
    \A pre \in {"", "a "}, ref \in IndexRefs, post \in {"", " b", "x"} :
      Unquote(Argument) = pre \o ref \o post =>
        /\ result.Error = ""
        /\ ev.stdout = << <<pre \o IndexValue(ref) \o post>> >>

\* C15: a reference to an unbound variable inside a literal expands to the
\* empty string without an error; as a standalone Variable argument it makes
\* the command fail with "undefined variable" and the verb is not invoked.
C15_UnboundReference ==
  /\ Expanded /\ Argument.Kind = "DOUBLE_QUOTE" =>
       \A pre \in {"", "a ", "$ "}, ref \in UnboundRefs, post \in {"", " b"} :
         Unquote(Argument) = pre \o ref \o post =>
           /\ result.Error = ""
           /\ ev.stdout = << <<pre \o post>> >>
  /\ Expanded /\ Argument.Kind = "VARIABLE" /\ Argument.Value \in UnboundRefs =>
       /\ result.Error = "undefined variable"
       /\ ev.stdout = <<>>
       /\ \A i \in Idx : T[i].ev = "invoke" => T[i].Line # 2

\* the run of a `set v $(INNER)` source is over
Substituted == Evaluated /\ Len(source) = 2 /\ source[1][2].Value = "v"

\* what the inner program writes: one line per echo
InnerOutput ==
  LET inner == source[1][3].Value
      RECURSIVE From(_)
      From(i) == IF i > Len(inner) THEN ""
                 ELSE Unquote(inner[i][2]) \o "\n" \o From(i + 1)
  IN From(1)

RECURSIVE TrimNewlines(_)
TrimNewlines(s) ==
  IF s # "" /\ SubSeq(s, Len(s), Len(s)) = "\n"
  THEN TrimNewlines(SubSeq(s, 1, Len(s) - 1)) ELSE s

\* C14: the value of a command substitution is the inner program's output
\* with only its trailing newlines removed, split at the remaining newlines;
\* leading whitespace and trailing spaces or tabs are kept.
C14_SubstitutionKeepsSpaces ==
  Substituted =>
    /\ result.Error = ""
    /\ ScopeGet(ev, "v").val = SplitLines(TrimNewlines(InnerOutput))

\* ======================================================================
\* Lexing: a Lexer over an input text, NextToken called until it returns EOF.

\* longest input, and most calls of NextToken on one input
MaxInput == 4

MaxLexed == 6

LexInputs ==
  LET Bytes == {"a", " ", "[", "]", "$", "(", "'", "\""}
      RECURSIVE Texts(_)
      Texts(n) == IF n = 0 THEN {""}
                  ELSE Texts(n - 1) \cup {t \o b : t \in Texts(n - 1), b \in Bytes}
  IN Texts(MaxInput)

InitLex ==
  /\ source = <<>>
  /\ pc = "lex"
  /\ program = NewProgram
  /\ ev = NewEvaluator
  /\ result = Result(0)
  /\ exitCode = -1
  /\ lexer \in {NewLexer(input) : input \in LexInputs}
  /\ tokens = <<>>

\* the loop of TokenStream: one call of NextToken, until EOF was returned
LexNext ==
  /\ pc = "lex"
  /\ Len(tokens) < MaxLexed
  /\ LET r == NextToken(lexer)
     IN /\ tokens' = Append(tokens, r.tok)
        /\ lexer' = r.l
        /\ pc' = IF r.tok.Kind = "EOF" THEN "lexed" ELSE pc
  /\ UNCHANGED <<program, ev, result, exitCode, source>>

LexSpec == InitLex /\ [][LexNext]_vars

\* C16: NextToken returns at most one non-EOF token per input byte and then
\* EOF, and every call that returns a non-EOF token consumes at least one byte.
C16_LexingTotal ==
  /\ [](pc \in {"lex", "lexed"} => Len(tokens) <= Len(lexer.input) + 1)
  /\ [][LexNext /\ tokens'[Len(tokens')].Kind # "EOF" => lexer'.pos > lexer.pos]_vars

\* ======================================================================
\* Control structures and calls: programs [main] FIRST / ITEM / echo after,
\* where ITEM is an if, a for or a call, evaluated by either copy of the
\* evaluator. ITEM is on line 10, a then- or for-body on lines 11 and 12, an
\* else block on line 20 with its body on lines 21 and 22.

\* most items of a for loop
MaxItems == 3

IfPrograms ==
  LET Conditions == {<<"exists", ".">>, <<"exists", "/nonexistent">>,
                     <<"nosuch">>, <<"echo", "$undef">>}
      Thens == {<<Echo(11, "then")>>, <<Echo(11, "then"), Echo(12, "more")>>}
      Elses == {<<>>,
                <<Block(20, CustomBlock, "else", <<>>, <<Echo(21, "else")>>)>>,
                <<Block(20, CustomBlock, "else", <<>>,
                        <<Cmd(21, "exists", <<LiteralExpr("/nonexistent")>>,
                              IgnoreError, NoCmd),
                          Echo(22, "more")>>)>>}
  IN {ProgramOf([item |-> Block(10, CustomBlock, "if", c, t \o el), fns |-> <<>>]) :
        c \in Conditions, t \in Thens, el \in Elses}

\* the body writes the whole list bound to v, a bar, and the second element
ForPrograms ==
  LET Items == UNION {[1..n -> {"a", "b", "c"}] : n \in 1..MaxItems}
      Show == Cmd(11, "echo", <<LiteralExpr("${v[*]}|${v[1]}")>>, FailFast, NoCmd)
      Bodies == {<<Show>>, <<Show, Echo(12, "x")>>}
  IN {ProgramOf([item |-> Block(10, CustomBlock, "for", <<"v", "in">> \o items, b),
                 fns |-> <<>>]) : items \in Items, b \in Bodies}

\* main binds x, then calls f, which may bind x, y and its parameter
CallPrograms ==
  LET Set(line, name, value) ==
        Cmd(line, "set", <<LiteralExpr(name), LiteralExpr(value)>>, FailFast, NoCmd)
      Steps == {Set(11, "x", "new"), Set(11, "y", "fresh"), Echo(11, "in f")}
      Bodies == UNION {[1..n -> Steps] : n \in 0..2}
      Main(args) == Block(1, MainBlock, "", <<>>,
                          <<Set(2, "x", "old"), Cmd(10, "f", args, FailFast, NoCmd),
                            Echo(3, "after")>>)
  IN {[Blocks |-> <<Block(15, FuncBlock, "f", declared, b), Main(args)>>,
       Main |-> Main(args)] :
        declared \in {<<>>, <<"p">>, <<"x">>}, b \in Bodies,
        args \in {<<>>, <<LiteralExpr("given")>>}}

\* a while loop whose condition fails at once, fails after the body removed
\* the file it tests, or ends with an error
WhilePrograms ==
  LET Conditions == {<<"exists", "/nonexistent">>, <<"exists", "flag1">>,
                     <<"nosuch">>, <<"exists">>}
      Bodies == {<<Echo(11, "body")>>,
                 <<Echo(11, "body"),
                   Cmd(12, "delete", <<LiteralExpr("flag1")>>, FailFast, NoCmd)>>}
  IN {ProgramOf([item |-> Block(10, CustomBlock, "while", c, b), fns |-> <<>>]) :
        c \in Conditions, b \in Bodies}

\* [main] for v in ITEM / echo TEXT / end / echo after: the loop binds v to
\* ITEM as written, and TEXT is a reference to v
SelfPrograms ==
  LET Items == {"a", "$", "${w}", "${v}", "$v"}
      Texts == {"${v}", "$v", "${v[*]}"}
      Main(item, text) ==
        Block(1, MainBlock, "", <<>>,
              <<Block(10, CustomBlock, "for", <<"v", "in", item>>,
                      <<Cmd(11, "echo", <<LiteralExpr(text)>>, FailFast, NoCmd)>>),
                Echo(3, "after")>>)
  IN {[Blocks |-> <<Main(i, t)>>, Main |-> Main(i, t)] : i \in Items, t \in Texts}

InitControl ==
  /\ program \in IfPrograms \cup ForPrograms \cup CallPrograms \cup WhilePrograms
                  \cup SelfPrograms
  /\ pc = "start"
  /\ ev \in {NewEvaluator, EvaluatorOfEvalGo}
  /\ result = Result(0)
  /\ exitCode = -1
  /\ NoFrontEnd

ControlSpec == InitControl /\ [][Next]_vars

\* ------------------------------------------------------ control: helpers
\* ITEM of a program of the family, once the run is over
Item == program.Main.Body[2]

Finished(label) ==
  /\ Evaluated /\ source = <<>> /\ Len(program.Main.Body) = 3
  /\ IF label = "call" THEN Item.kind = "Cmd" /\ Item.Verb = "f"
     ELSE Item.kind = "Block" /\ Item.Label = label

\* the verb of the command on this line was invoked
Ran(line) == \E i \in Idx : T[i].ev = "invoke" /\ T[i].Line = line

HasElse == \E i \in 1..Len(Item.Body) : IsElse(Item.Body[i])

\* C18: evalIf runs exactly one arm: the then-body and not the else-body when
\* the condition command ends with status 0; otherwise the else-body, if there
\* is one, and not the then-body, and the command after the if's end runs.
C18_ExactlyOneArm ==
  Finished("if") =>
    \E c \in Idx :
      /\ T[c].ev = "return" /\ T[c].cmd.Line = 0
      /\ T[c].ret.Status = 0 => Ran(11) /\ ~Ran(21)
      /\ T[c].ret.Status # 0 => ~Ran(11) /\ (HasElse => Ran(21)) /\ Ran(3)

C18_Witness ==
  /\ Finished("if") /\ HasElse /\ Ran(21) /\ Ran(3) /\ ~Ran(11)
  /\ \E c \in Idx : T[c].ev = "return" /\ T[c].cmd.Line = 0 /\ T[c].ret.Status # 0

\* what a for loop of the family writes when its body runs once per item, in
\* item order, with v bound to the one-element list of that item
ForOutput ==
  LET items == SubSeq(Item.Args, 3, Len(Item.Args))
      b == Len(Item.Body)
  IN <<<<"before">>>>
     \o [j \in 1..(Len(items) * b) |->
           IF (j - 1) % b = 0 THEN <<items[(j - 1) \div b + 1] \o "|">> ELSE <<"x">>]
     \o <<<<"after">>>>

\* C19: `for v in i1 ... in` with n >= 1 items executes its body exactly n
\* times, in item order, with v bound to the one-element list [ik] during the
\* k-th iteration (no command of these bodies halts).
C19_ForRunsEachItem ==
  Finished("for") => result.Error = "" /\ ev.stdout = ForOutput

\* C20: a function call leaves the caller's variables other than status as
\* they were: after main bound x and called f, x has the value main gave it
\* and no name first bound in f (y, the parameter p, a numbered parameter) is
\* bound in main's scope.
C20_CallLeavesCallerScope ==
  Finished("call") =>
    LET caller == ev.scopes[1].Variables
    IN /\ result.Error = ""
       /\ DOMAIN caller \ {"status"} = {"argv", "x"}
       /\ caller["x"] = <<"old">>
       /\ caller["argv"] = <<>>

\* ======================================================================
\* Conditions that end with a hard error

\* the condition command of the if ended with an error
ConditionErred ==
  \E c \in Idx : T[c].ev = "return" /\ T[c].cmd.Line = 0 /\ T[c].ret.Error # ""

\* C29: an if whose condition command ends with a hard error (an unknown verb,
\* an undefined standalone variable) does not execute its then-body.
C29_ErredConditionSkipsThen ==
  Finished("if") /\ ConditionErred => ~Ran(11)

\* the run of a while program of the family is over, or was cut off
WhileOver ==
  /\ pc \in {"evaluated", "exited", "hung"} /\ source = <<>>
  /\ Len(program.Main.Body) = 3 /\ Item.kind = "Block" /\ Item.Label = "while"

\* the first evaluation of the loop's condition failed: non-zero status or error
FirstConditionFailed ==
  \E c \in Idx :
    /\ T[c].ev = "return" /\ T[c].cmd.Line = 0 /\ Failed(T[c].ret)
    /\ \A b \in 1..(c - 1) : ~(T[b].ev = "return" /\ T[b].cmd.Line = 0)

\* C25: a while whose condition fails on its first evaluation, with a non-zero
\* status or with a hard error such as an unknown verb, runs its body zero
\* times and terminates, and the enclosing block goes on with its next command.
C25_FailedConditionEndsWhile ==
  WhileOver /\ FirstConditionFailed => pc # "hung" /\ ~Ran(11) /\ Ran(3)

\* ======================================================================
\* Line boundaries

\* the source is a command line ending with `?`, followed by the line `echo b`
EndsWithIgnore ==
  /\ Len(source) = 2 /\ source[1][1].Kind # "HEADER_START"
  /\ HasSuffixForm(source[1])
  /\ FirstMarker(source[1]) = Len(source[1])

\* C27: a line boundary ends a command: a command that ends its line with `?`
\* is parsed with the policy IgnoreError and no fallback, the command of the
\* next line is a separate item of the same block, and it is executed whether
\* the first command succeeded or failed.
C27_LineEndsCommand ==
  EndsWithIgnore =>
    /\ Parsed =>
         /\ Len(program.Main.Body) = 2
         /\ program.Main.Body[1].ErrorPolicy = IgnoreError
         /\ program.Main.Body[1].Fallback.kind = "None"
         /\ program.Main.Body[2].kind = "Cmd"
         /\ program.Main.Body[2].Verb = "echo" /\ program.Main.Body[2].Line = 2
    /\ pc \in {"evaluated", "exited"} =>
         \E i \in 1..Len(ev.stdout) : ev.stdout[i] = <<"b">>

\* ======================================================================
\* Expansion of a value that itself holds a reference

\* the run of a program of SelfPrograms is over, or was cut off
SelfOver ==
  /\ pc \in {"evaluated", "exited", "hung"} /\ source = <<>>
  /\ Len(program.Main.Body) = 2 /\ program.Main.Body[1].kind = "Block"

\* C30: expandVariables terminates for every literal and scope, and the text
\* put in place of a reference is not expanded again: with v bound to ITEM,
\* the literals ${v}, $v and ${v[*]} expand to ITEM as it is.
C30_ExpansionEndsAndIsNotRepeated ==
  SelfOver =>
    /\ pc # "hung"
    /\ ev.stdout = << <<program.Main.Body[1].Args[3]>>, <<"after">> >>

\* ======================================================================
\* Namespaces: programs whose Namespaces table holds the functions a, b, c and
\* exists of an imported file under the name u.  [main] is echo before / VERB .
\* / echo after; a calls INNER, b calls c, c and exists write their own names.

NamespacePrograms ==
  LET Call1(line, verb) == Cmd(line, verb, <<LiteralExpr(".")>>, FailFast, NoCmd)
      Fn(line, name, body) == Block(line, FuncBlock, name, <<>>, body)
      Imported(inner) ==
        [n \in {"u"} |->
           [f \in {"a", "b", "c", "exists"} |->
              CASE f = "a" -> Fn(30, "a", <<Call1(31, inner)>>)
                [] f = "b" -> Fn(40, "b", <<Call1(41, "c")>>)
                [] f = "c" -> Fn(50, "c", <<Echo(51, "u.c")>>)
                [] f = "exists" -> Fn(60, "exists", <<Echo(61, "u.exists")>>)]]
      Roots == {<<>>, <<Fn(20, "c", <<Echo(21, "c")>>)>>,
                <<Fn(25, "exists", <<Echo(26, "exists")>>)>>}
      Verbs == {"u.a", "u.b", "u.c", "u.exists", "c", "exists", "echo",
                "nosuch", "u.zz", "zz.a", "u.a.b"}
      Inners == {"b", "c", "exists", "nosuch", "u.c"}
      Main(verb) == Block(1, MainBlock, "", <<>>,
                          <<Echo(2, "before"), Call1(10, verb), Echo(3, "after")>>)
  IN {[Blocks |-> roots \o <<Main(verb)>>, Main |-> Main(verb),
       Namespaces |-> Imported(inner)] :
        roots \in Roots, verb \in Verbs, inner \in Inners}

InitNamespace ==
  /\ program \in NamespacePrograms
  /\ pc = "start"
  /\ ev = NewEvaluator
  /\ result = Result(0)
  /\ exitCode = -1
  /\ NoFrontEnd

NamespaceSpec == InitNamespace /\ [][Next]_vars

\* ---------------------------------------------------- namespaces: helpers
\* the run of a program with a Namespaces table is over
Resolved == Evaluated /\ source = <<>> /\ "Namespaces" \in DOMAIN program

\* the verb invoked at log entry i became a call of the function fn
CallsBlock(i, fn) == i < Len(T) /\ T[i + 1].ev = "call" /\ T[i + 1].Line = fn.Line

\* the verb invoked at log entry i returned at once, with the result raw
ReturnsAtOnce(i) == i < Len(T) /\ T[i + 1].ev = "return" /\ T[i + 1].from = i

Qualified(verb) == IndexFrom(verb, ".", 1) # 0

\* the namespace and the function a qualified verb names
NamespaceOf(verb) == SubSeq(verb, 1, IndexFrom(verb, ".", 1) - 1)

FunctionOf(verb) == SubSeq(verb, IndexFrom(verb, ".", 1) + 1, Len(verb))

\* the verb is ns.fn for a function fn of the namespace ns
NamesFunction(verb) ==
  /\ Qualified(verb)
  /\ NamespaceOf(verb) \in DOMAIN ev.Namespaces
  /\ FunctionOf(verb) \in DOMAIN ev.Namespaces[NamespaceOf(verb)]

\* the verb is unqualified and a function of the namespace context ns
InContext(verb, ns) ==
  /\ ~Qualified(verb) /\ ns # ""
  /\ ns \in DOMAIN ev.Namespaces /\ verb \in DOMAIN ev.Namespaces[ns]

\* the command invoked at i failed as an unknown command, with its place
FailsUnknown(i) ==
  /\ ReturnsAtOnce(i)
  /\ T[i + 1].raw.Error = "unknown command"
  /\ "Location" \in DOMAIN T[i + 1].raw
  /\ T[i + 1].raw.Location = [Line |-> T[i].cmd.Line, Column |-> T[i].cmd.Column]
  /\ T[i + 1].raw.Help # ""

\* what the priority order asks of the invocation at i; unmatched(i) is the
\* outcome when neither a function nor a built-in matches
ResolvedInOrder(i, unmatched(_)) ==
  LET verb == T[i].cmd.Verb IN
  IF verb \in DOMAIN ev.Functions THEN CallsBlock(i, ev.Functions[verb])
  ELSE IF InContext(verb, T[i].namespace)
  THEN CallsBlock(i, ev.Namespaces[T[i].namespace][verb])
  ELSE IF NamesFunction(verb)
  THEN CallsBlock(i, ev.Namespaces[NamespaceOf(verb)][FunctionOf(verb)])
  ELSE IF verb \in builtins
  THEN ReturnsAtOnce(i) /\ T[i + 1].raw.Error # "unknown command"
  ELSE unmatched(i)

FailsByForm(i) ==
  IF Qualified(T[i].cmd.Verb)
  THEN /\ ReturnsAtOnce(i)
       /\ T[i + 1].raw.Error \in {"namespace not found", "function not found in namespace",
                                  "invalid namespaced function call"}
       /\ "Location" \notin DOMAIN T[i + 1].raw
  ELSE FailsUnknown(i)

Through(i) ==
  LET verb == T[i].cmd.Verb IN
  IF verb \in DOMAIN ev.Functions THEN ""
  ELSE IF InContext(verb, T[i].namespace) THEN T[i].namespace
  ELSE IF NamesFunction(verb) THEN NamespaceOf(verb)
  ELSE ""

\* C28: a function resolved through a namespace, by a qualified verb or by an
\* unqualified verb found in the current namespace context, runs in a child
\* scope whose namespace context is that namespace; so when main calls u.a, a
\* calls b and b calls c, with b and c functions of u only, c runs.
C28_NamespaceContextKept ==
  Resolved =>
    /\ \A i \in Idx :
         T[i].ev = "invoke" /\ Through(i) # "" =>
           T[i + 1].ev = "call" /\ T[i + 1].namespace = Through(i)
    /\ (/\ program.Main.Body[2].Verb = "u.a"
        /\ program.Namespaces["u"]["a"].Body[1].Verb = "b"
        /\ "c" \notin DOMAIN ev.Functions)
         => \E k \in 1..Len(ev.stdout) : ev.stdout[k] = <<"u.c">>

\* ======================================================================
\* spawn and wait: the table spawnedProcs of the processes started by spawn

\* most calls of spawn and wait in a run
MaxCalls == 4
\* the process ids the system hands out
MaxPid == 2

\* builtinSpawn; pid is what cmd.Start() leaves in cmd.Process.Pid, 0 when
\* Start fails
builtinSpawn(args, e, pid) ==
  IF Len(args) = 0
  THEN [res |-> ErrorResult("spawn: requires at least one argument (command)"), e |-> e]
  ELSE IF pid = 0 THEN [res |-> ErrorResult("spawn: start failed"), e |-> e]
  ELSE [res |-> Result(pid),
        e |-> [e EXCEPT !.spawnedProcs = (pid :> StrArgs(args)) @@ @]]

\* the entry of pid taken out of the table
Deleted(procs, pid) == [p \in DOMAIN procs \ {pid} |-> procs[p]]

\* builtinWait that keeps the entry when cmd.Wait() fails
builtinWait_Mut(args, e, outcome) ==
  IF Len(args) # 1
  THEN [res |-> ErrorResult("wait: requires exactly one argument (PID)"), e |-> e]
  ELSE LET pid == Atoi(ValueString(args[1])) IN
       IF ~pid.ok THEN [res |-> ErrorResult("wait: invalid PID"), e |-> e]
       ELSE IF pid.val \notin DOMAIN e.spawnedProcs
       THEN [res |-> ErrorResult("wait: unknown pid"), e |-> e]
       ELSE IF outcome = "error" THEN [res |-> ErrorResult("wait: failed"), e |-> e]
       ELSE [res |-> Result(IF outcome = "exit0" THEN 0 ELSE 1),
             e |-> [e EXCEPT !.spawnedProcs = Deleted(@, pid.val)]]

\* builtinWait; outcome is what cmd.Wait() returns: nil (exit0), an ExitError
\* (exit1) or another error
builtinWait(args, e, outcome) ==
  IF Len(args) # 1
  THEN [res |-> ErrorResult("wait: requires exactly one argument (PID)"), e |-> e]
  ELSE LET pid == Atoi(ValueString(args[1])) IN
       IF ~pid.ok THEN [res |-> ErrorResult("wait: invalid PID"), e |-> e]
       ELSE IF pid.val \notin DOMAIN e.spawnedProcs
       THEN [res |-> ErrorResult("wait: unknown pid"), e |-> e]
       ELSE IF outcome = "error"
       THEN [res |-> ErrorResult("wait: failed"),
             e |-> [e EXCEPT !.spawnedProcs = Deleted(@, pid.val)]]
       ELSE [res |-> Result(IF outcome = "exit0" THEN 0 ELSE 1),
             e |-> [e EXCEPT !.spawnedProcs = Deleted(@, pid.val)]]

InitProc ==
  /\ program = NewProgram
  /\ pc = "proc"
  /\ ev = NewEvaluator
  /\ result = Result(0)
  /\ exitCode = -1
  /\ NoFrontEnd

\* what a call of a built-in leaves: its Result, and the call in the log
AfterCall(verb, args, r) ==
  /\ ev' = Log(r.e, [ev |-> verb, args |-> args, ret |-> r.res])
  /\ result' = r.res
  /\ UNCHANGED <<program, pc, exitCode, source, lexer, tokens>>

\* a call of spawn; the system starts the command under a process id that no
\* child not yet waited for has, or fails to start it
ProcSpawn ==
  /\ pc = "proc" /\ Len(ev.trace) < MaxCalls
  /\ \E args \in {<<>>, <<<<"sleep">>>>},
        pid \in 0..MaxPid \ DOMAIN ev.spawnedProcs :
       AfterCall("spawn", args, builtinSpawn(args, ev, pid))

\* a call of wait
ProcWait ==
  /\ pc = "proc" /\ Len(ev.trace) < MaxCalls
  /\ \E args \in {<<>>, <<<<"x">>>>} \cup {<<<<Itoa(p)>>>> : p \in 0..MaxPid},
        outcome \in {"exit0", "exit1", "error"} :
       AfterCall("wait", args, builtinWait(args, ev, outcome))

ProcNext == ProcSpawn \/ ProcWait

ProcSpec == InitProc /\ [][ProcNext]_vars

\* ------------------------------------------------------------- properties
\* log entry i is a spawn that started a process
Spawned(i) == T[i].ev = "spawn" /\ T[i].ret.Error = ""

\* log entry j is a wait whose argument is the process id p
WaitFor(j, p) ==
  T[j].ev = "wait" /\ Len(T[j].args) = 1 /\ ValueString(T[j].args[1]) = Itoa(p)

\* the process ids of the spawns among the first n calls that started a
\* process no later call among them waited for
Unwaited(n) ==
  {p \in 1..MaxPid :
     \E i \in 1..n : /\ Spawned(i) /\ T[i].ret.Status = p
                     /\ \A j \in (i + 1)..n : ~WaitFor(j, p)}

\* C21: the process table holds exactly the ids of the processes started by a
\* spawn and not yet waited for: a spawn that starts a process adds its id,
\* `wait PID` for a registered id removes it whatever cmd.Wait() returns, and
\* `wait PID` for an id that is not registered returns an error and leaves
\* the table as it is.
C21_TableIsUnwaitedSpawns ==
  pc = "proc" =>
    /\ DOMAIN ev.spawnedProcs = Unwaited(Len(T))
    /\ \A j \in Idx, p \in 0..MaxPid :
         WaitFor(j, p) /\ p \notin Unwaited(j - 1) => T[j].ret.Error # ""

\* a process was started, waited for with a failing cmd.Wait(), and waited
\* for again
C21_Witness ==
  /\ pc = "proc" /\ ev.spawnedProcs = <<>>
  /\ \E i, j, k \in Idx :
       /\ i < j /\ j < k
       /\ Spawned(i) /\ WaitFor(j, T[i].ret.Status) /\ T[j].ret.Error = "wait: failed"
       /\ WaitFor(k, T[i].ret.Status) /\ T[k].ret.Error = "wait: unknown pid"

\* ======================================================================
\* Redirections and pipelines: the streams and the descriptors of the process

\* [main] echo before / COMMAND REDIRECTS / echo after, with up to two
\* redirections; the targets . (a directory) and /nonexistent/out cannot be
\* opened
RedirectPrograms ==
  LET Targets == {[Type |-> ">", Target |-> "out"], [Type |-> ">>", Target |-> "log"],
                  [Type |-> "2>", Target |-> "err"],
                  [Type |-> ">", Target |-> "/nonexistent/out"],
                  [Type |-> "2>", Target |-> "."]}
      Redirects == UNION {[1..n -> Targets] : n \in 0..2}
      Commands == {Cmd(10, verb, <<LiteralExpr("/nonexistent")>>, policy, NoCmd) :
                     verb \in {"echo", "exists", "nosuch"},
                     policy \in {FailFast, IgnoreError}}
  IN {ProgramOf([item |-> [c EXCEPT !.Redirects = rs], fns |-> <<>>]) :
        c \in Commands, rs \in Redirects}

\* [main] echo before / STAGE | ... | STAGE / echo after: a stage succeeds,
\* ends with status 1 or ends with a hard error
PipePrograms ==
  LET Stage == {Cmd(10, verb, <<LiteralExpr("/nonexistent")>>, FailFast, NoCmd) :
                  verb \in {"echo", "exists", "nosuch"}}
  IN {ProgramOf([item |-> Pipeline(10, cmds), fns |-> <<>>]) :
        cmds \in UNION {[1..n -> Stage] : n \in 2..MaxStages}}

InitStream ==
  /\ program \in RedirectPrograms \cup PipePrograms
  /\ pc = "start"
  /\ ev = NewEvaluator
  /\ result = Result(0)
  /\ exitCode = -1
  /\ NoFrontEnd

StreamSpec == InitStream /\ [][Next]_vars

\* -------------------------------------------------------------- properties
\* the descriptors created after the first n that are still open
OpenAfter(fds, n) == {k \in (n + 1)..Len(fds) : fds[k].open}

\* log entry i is the return of the command with redirections
RedirectReturn(i) ==
  T[i].ev = "return" /\ T[i].cmd.Line = 10 /\ T[i].cmd.Redirects # <<>>

\* C22: whenever evalCommand returns - normally, with an error of the verb, or
\* because a redirection target could not be opened, be it the first or a
\* later one - os.Stdout and os.Stderr are the streams they were before the
\* call and every file opened for a redirection of the command is closed.
C22_RedirectsReleased ==
  \A i \in Idx :
    RedirectReturn(i) =>
      /\ T[i].std.Stdout = T[i].orig.Stdout
      /\ T[i].std.Stderr = T[i].orig.Stderr
      /\ \A k \in 1..Len(T[i].fds) : T[i].fds[k].kind = "file" => ~T[i].fds[k].open

\* the log entries before i at which a stage of the pipeline returned
StageReturns(i) == {j \in 1..(i - 1) : T[j].ev = "return" /\ T[j].cmd.Line = 10}

\* log entry i is the return of a pipeline of two or more stages
PipeReturned(i) == T[i].ev = "pipe" /\ Len(T[i].pipeline.Commands) >= 2

\* C26: when a stage of a pipeline of N stages returns a hard error no later
\* stage is executed and the error is returned; on that return, and on the
\* return of a pipeline that completes, os.Stdin and os.Stdout are the
\* original streams and every read end and write end made for the pipeline
\* is closed.
C26_PipelineReleased ==
  \A i \in Idx :
    PipeReturned(i) =>
      /\ \A j \in StageReturns(i) :
           T[j].ret.Error # "" =>
             /\ \A k \in StageReturns(i) : k <= j
             /\ T[i].ret.Error = T[j].ret.Error
      /\ T[i].std.Stdin = NewEvaluator.std.Stdin
      /\ T[i].std.Stdout = NewEvaluator.std.Stdout
      /\ \A k \in 1..Len(T[i].fds) :
           T[i].fds[k].kind \in {"reader", "writer"} => ~T[i].fds[k].open

\* ======================================================================
\* The capture pipe of executeCommandSubstitution, step by step: the
\* goroutine that evaluates the sub-program writes its output to the write
\* end w of an os.Pipe, whose buffer holds PipeCap bytes; part_002 starts a
\* second goroutine that copies the read end r into buf, eval.go reads r
\* itself once the sub-program is over.  The output is the bytes 1..n.

\* bytes the pipe's buffer holds
PipeCap == 2
\* most bytes a sub-program of the family writes
MaxOutput == 4

\* executeCommandSubstitution up to `os.Stdout = w`, and in part_002 the
\* `go func()` of the drainer; failed: the sub-program ends with an error
InitCapture ==
  /\ \E file \in {"unnamed/part_002", "internal/box/eval.go"},
        n \in 0..MaxOutput, failed \in BOOLEAN :
       ev = [file |-> file, output |-> [k \in 1..n |-> k], written |-> 0,
             pipe |-> <<>>, wOpen |-> TRUE, rOpen |-> TRUE, buf |-> <<>>,
             drainer |-> IF file = "unnamed/part_002" THEN "copying" ELSE "none",
             failed |-> failed]
  /\ pc = "evalBlock"
  /\ program = NewProgram
  /\ result = Result(0)
  /\ exitCode = -1
  /\ NoFrontEnd

\* the sub-program writes its next byte to os.Stdout, which is w; the write
\* blocks while the pipe's buffer is full
CaptureWrite ==
  /\ pc = "evalBlock"
  /\ ev.written < Len(ev.output)
  /\ Len(ev.pipe) < PipeCap
  /\ ev' = [ev EXCEPT !.written = @ + 1, !.pipe = Append(@, ev.output[ev.written + 1])]
  /\ UNCHANGED <<program, pc, result, exitCode, source, lexer, tokens>>

\* what executeCommandSubstitution returns: the captured bytes, or the error
\* of the sub-program
Captured(e) ==
  IF e.failed
  THEN [val |-> <<>>, err |-> "command substitution execution error", hung |-> FALSE]
  ELSE [val |-> e.buf, err |-> "", hung |-> FALSE]

\* evalBlock returns: w.Close(), os.Stdout = originalStdout; eval.go returns
\* at once, closing r, when the sub-program ended with an error
CaptureClose ==
  /\ pc = "evalBlock"
  /\ ev.written = Len(ev.output)
  /\ IF ev.file = "internal/box/eval.go" /\ ev.failed
     THEN /\ ev' = [ev EXCEPT !.wOpen = FALSE, !.rOpen = FALSE]
          /\ pc' = "returned"
          /\ result' = Captured(ev)
     ELSE /\ ev' = [ev EXCEPT !.wOpen = FALSE]
          /\ pc' = IF ev.file = "unnamed/part_002" THEN "done" ELSE "ReadFrom"
          /\ UNCHANGED result
  /\ UNCHANGED <<program, exitCode, source, lexer, tokens>>

\* the drainer's io.Copy(&buf, r): a Read takes bytes that are in the pipe;
\* with the pipe empty it blocks while w is open and ends the copy, and
\* closes the channel done, once w is closed
CaptureDrain ==
  /\ ev.drainer = "copying"
  /\ IF ev.pipe # <<>>
     THEN \E k \in 1..Len(ev.pipe) :
            ev' = [ev EXCEPT !.buf = @ \o SubSeq(ev.pipe, 1, k),
                             !.pipe = SubSeq(@, k + 1, Len(@))]
     ELSE ~ev.wOpen /\ ev' = [ev EXCEPT !.drainer = "done"]
  /\ UNCHANGED <<program, pc, result, exitCode, source, lexer, tokens>>

\* part_002: `<-done`, r.Close(), and the return
CaptureAwait ==
  /\ pc = "done"
  /\ ev.drainer = "done"
  /\ ev' = [ev EXCEPT !.rOpen = FALSE]
  /\ result' = Captured(ev)
  /\ pc' = "returned"
  /\ UNCHANGED <<program, exitCode, source, lexer, tokens>>

\* eval.go: output.ReadFrom(r), which ends at once as w is closed, r.Close(),
\* and the return
CaptureReadFrom ==
  /\ pc = "ReadFrom"
  /\ ev' = [ev EXCEPT !.buf = @ \o ev.pipe, !.pipe = <<>>, !.rOpen = FALSE]
  /\ result' = Captured(ev')
  /\ pc' = "returned"
  /\ UNCHANGED <<program, exitCode, source, lexer, tokens>>

\* the steps of the goroutine that called executeCommandSubstitution
CaptureMain == CaptureWrite \/ CaptureClose \/ CaptureAwait \/ CaptureReadFrom

CaptureNext == CaptureMain \/ CaptureDrain

\* the Go scheduler runs every goroutine that is not blocked
CaptureSpec ==
  InitCapture /\ [][CaptureNext]_vars /\ WF_vars(CaptureMain) /\ WF_vars(CaptureDrain)

\* C23: command substitution never deadlocks on the capture pipe: whatever
\* the sub-program writes, be it more than the pipe's buffer holds, the call
\* returns in the end, with the reader ended, both ends of the pipe closed
\* and, unless the sub-program failed, the complete output.
C23_CaptureReturns ==
  <>(/\ pc = "returned"
     /\ ev.drainer # "copying" /\ ~ev.wOpen /\ ~ev.rOpen
     /\ ~ev.failed => ev.buf = ev.output)

====
